---- MODULE Spec2Model ----
(***************************************************************************)
(* Model of the GCP infrastructure marketplace: the price catalog          *)
(* (fetch_pricing_skus, get_price_for_resource), the cost estimate         *)
(* (estimate_billing_cost_from_api) and the review page that reconciles    *)
(* the editable configuration with the removal set                         *)
(* (show_recommendation_page / show_recommendation_ui).                    *)
(*                                                                         *)
(* Representation.                                                         *)
(*  - A Python str is a sequence of tokens; "a in b" is the contiguous     *)
(*    sub-sequence test, "" is << >>.  The tokens are cut where the        *)
(*    strings of the model differ, so every substring relation between    *)
(*    them is the one their characters have.                               *)
(*  - A price is an integer number of ticks, one tick = 1/PriceScale       *)
(*    dollar; nanos are the API's integers (1e-9 dollar), every nanos of   *)
(*    the model is a whole number of ticks.  A total is rounded to whole   *)
(*    cents as round(x, 2) rounds it.                                      *)
(*  - A dict is the sequence of its items in insertion order.              *)
(***************************************************************************)
EXTENDS Integers, Sequences, FiniteSets, TLC

VARIABLES
    \* ---- fetch_pricing_skus (src/Updated/app.py:32-68)
    service,          \* TRUE iff service and billing_account_id are not None
    pages,            \* the responses the billing API serves, in order
    failAt,           \* number of the page whose execute() raises, 0 = none
    fetch_pc,         \* "loop" | "done"
    page_token,       \* 0 = None, k = token of page k+1
    fetched,          \* numbers of the pages requested so far, in order
    skus_price_map,   \* the dict being filled / returned
    fetch_warned,     \* st.warning("Error fetching pricing SKUs") was shown
    \* ---- get_price_for_resource (src/Updated/app.py:70-74)
    lk_map, lk_desc, lk_region, lk_usage, lk_pc, lk_result,
    \* ---- estimate_billing_cost_from_api (src/Updated/app.py:143-191)
    est_config,       \* the config argument
    est_region,       \* the region argument
    est_map,          \* the skus_price_map argument
    est_pc,           \* "call" | "done"
    est_result,       \* the returned (total in cents, days)
    \* ---- the review page (show_recommendation_page / show_recommendation_ui)
    variant,          \* the source file whose review page the session runs
    has_editable_rec, \* 'editable_rec' in st.session_state
    genai_result,     \* st.session_state.genai_result, << >> is {}
    editable_rec,     \* st.session_state.editable_rec
    removed_fields,   \* st.session_state.removed_fields
    keep,             \* value of the checkbox keep_<field> in the browser
    keep_shown,       \* checkboxes the last run rendered
    slider_shown,     \* sliders the last run rendered
    slider_move,      \* << >>, or <<field, value>> the user dragged a slider to
    render_pc,        \* "idle" | "gen" | "keep" | "sliders"
    render_raised,    \* the last run ended in an unhandled exception
    warned,           \* fields the current run showed a slider warning for
    shown_cost,       \* the (cost, days) the last estimate of the page showed
    \* ---- the catalog a session holds (src/Updated/app.py:32, 207-219)
    cache_entry,      \* what st.cache_data holds for fetch_pricing_skus
    session_map,      \* st.session_state.skus_price_map of a reading session
    reader_seen,      \* the index the session's last render read
    \* ---- the marketplace script (src/Frontend/app.py, src/Test/dummy.py)
    env,              \* st.selectbox("Select Environment")
    mode,             \* st.radio("Choose Input Method"): "form" | "chat"
    app_rec,          \* the script's local recommendation, << >> is {}
    sub_event,        \* the widget event the current run was triggered by
    sub_pc,           \* "off" | "idle" | "top" | "review"
    submit_shown,     \* the last run rendered the submit button
    posted,           \* the bodies requests.post has sent, in order
    today,            \* date.today() of the session, <<year, month, day>>
    \* ---- the input page (show_input_page / show_input_form)
    page,             \* st.session_state.page
    user_fields,      \* st.session_state.user_fields, << >> is {}
    user_data,        \* the local user_data of the last run of the page
    input_event,      \* the widget event the current run was triggered by
    input_pc,         \* "off" | "idle" | "run" | "left"
    raw_blank,        \* raw_text.strip() is empty
    parsed_fields     \* what the extraction of the last run returned

fetchVars == <<service, pages, failAt, fetch_pc, page_token, fetched,
               skus_price_map, fetch_warned>>
lookupVars == <<lk_map, lk_desc, lk_region, lk_usage, lk_pc, lk_result>>
estVars == <<est_config, est_region, est_map, est_pc, est_result>>
reviewVars == <<variant, has_editable_rec, genai_result, editable_rec,
                removed_fields, keep, keep_shown, slider_shown, slider_move,
                render_pc, render_raised, warned, shown_cost>>
sessVars == <<cache_entry, session_map, reader_seen>>
submitVars == <<env, mode, app_rec, sub_event, sub_pc, submit_shown, posted,
                today>>
inputVars == <<page, user_fields, user_data, input_event, input_pc, raw_blank,
               parsed_fields>>
vars == <<fetchVars, lookupVars, estVars, reviewVars, sessVars, submitVars,
          inputVars>>

----------------------------------------------------------------------------
(* Bounds of the model *)
MaxSkus == 2        \* records served by the billing API, all pages together
MaxPages == 2       \* pages the records are split into
MaxEntries == 3     \* items of a price map handed to a lookup

----------------------------------------------------------------------------
(* Python helpers *)

\* a in b for two str
StrIn(a, b) ==
    \E i \in 0..(Len(b) - Len(a)) : SubSeq(b, i + 1, i + Len(a)) = a

\* sequences over S of length at most n
SeqUpTo(S, n) == UNION {[1..k -> S] : k \in 0..n}

\* sequences over S without a repeated element, of length at most n
InjSeqUpTo(S, n) ==
    {s \in SeqUpTo(S, n) : \A i, j \in 1..Len(s) : i # j => s[i] # s[j]}

\* a plausible slip: the key written again moves to the end of the dict
DictSet_MovesLast(d, key, value) ==
    Append(SelectSeq(d, LAMBDA item : item.key # key),
           [key |-> key, price |-> value])

\* a plausible slip: the first value written under a key stays (setdefault)
DictSet_KeepsFirst(d, key, value) ==
    IF \E i \in 1..Len(d) : d[i].key = key THEN d
    ELSE Append(d, [key |-> key, price |-> value])

\* d[key] = value on a dict kept as its item sequence: an existing key keeps
\* its position, a new key goes last
DictSet(d, key, value) ==
    IF \E i \in 1..Len(d) : d[i].key = key
    THEN [i \in 1..Len(d) |->
             IF d[i].key = key THEN [key |-> key, price |-> value] ELSE d[i]]
    ELSE Append(d, [key |-> key, price |-> value])

----------------------------------------------------------------------------
(* Strings of the catalog *)
ComputeEngine == <<"Compute", "Engine">>
CloudStorage == <<"Cloud", "Storage">>
cpu_desc == <<"N1", "Predefined", "Instance", "Core">>
memory_desc == <<"N1", "Predefined", "Instance", "Ram">>
storage_desc == <<"SSD">>
SsdSkuDesc == <<"SSD", "backed", "PD", "Capacity">>
T4 == <<"NVIDIA", "T4">>
A100 == <<"NVIDIA", "A100">>
V100 == <<"NVIDIA", "V100">>
T4SkuDesc == <<"NVIDIA", "T4", "GPU", "running", "in", "Americas">>
StdStorageDesc == <<"Standard", "Storage">>
OnDemand == <<"OnDemand">>
Preemptible == <<"Preemptible">>
EmptyStr == << >>
global == <<"global">>
UsCentral1 == <<"us", "-central1">>
AsiaEast1 == <<"asia", "-east1">>
Us == <<"us">>

PriceScale == 1000          \* ticks per dollar
NanosPerTick == 1000000     \* 1e9 / PriceScale

----------------------------------------------------------------------------
(* fetch_pricing_skus *)

Rate(u, n) == [hasPrice |-> TRUE, units |-> u, nanos |-> n]
NoPriceRate == [hasPrice |-> FALSE, units |-> 0, nanos |-> 0]

Sku(svc, d, u, rs, pi) ==
    [category |-> TRUE, service |-> svc, desc |-> d, usage |-> u,
     regions |-> rs, pricingInfo |-> pi]

\* the records the billing API may serve; pricingInfo is the sequence of the
\* tieredRates lists of its items
SkuCoreUc == Sku(ComputeEngine, cpu_desc, OnDemand, <<UsCentral1>>,
                 << <<Rate(0, 30000000), Rate(0, 20000000)>> >>)
SkuCoreGlobal == Sku(ComputeEngine, cpu_desc, OnDemand, <<global>>,
                     << <<Rate(0, 50000000)>> >>)
SkuRamTwoRegions == Sku(ComputeEngine, memory_desc, OnDemand,
                        <<UsCentral1, AsiaEast1>>,
                        << <<Rate(0, 10000000)>> >>)
SkuCloudStorage == Sku(CloudStorage, StdStorageDesc, OnDemand, <<UsCentral1>>,
                       << <<Rate(0, 26000000)>> >>)
SkuNoCategory == [Sku(ComputeEngine, cpu_desc, OnDemand, <<UsCentral1>>,
                      << <<Rate(0, 40000000)>> >>) EXCEPT !.category = FALSE]
SkuNoPrice == Sku(ComputeEngine, SsdSkuDesc, OnDemand, <<UsCentral1>>,
                  << <<NoPriceRate>> >>)
SkuNoTiers == Sku(ComputeEngine, T4SkuDesc, OnDemand, <<UsCentral1>>,
                  << << >> >>)
SkuNoPricing == Sku(ComputeEngine, T4SkuDesc, Preemptible, <<UsCentral1>>,
                    << >>)
SkuTwoInfos == Sku(ComputeEngine, cpu_desc, OnDemand, <<UsCentral1>>,
                   << <<Rate(0, 31000000)>>, <<Rate(1, 0)>> >>)
SkuNoRegion == Sku(ComputeEngine, SsdSkuDesc, OnDemand, << >>,
                   << <<Rate(0, 1000000)>> >>)

SkuPool == {SkuCoreUc, SkuCoreGlobal, SkuRamTwoRegions, SkuCloudStorage,
            SkuNoCategory, SkuNoPrice, SkuNoTiers, SkuNoPricing,
            SkuTwoInfos, SkuNoRegion}

\* price_per_unit = units + nanos / 1e9, in ticks
PricePerUnit(rate) ==
    IF rate.hasPrice
    THEN rate.units * PriceScale + (rate.nanos \div NanosPerTick)
    ELSE 0      \* unit_price = {} : units 0, nanos 0

\* a plausible slip: the price of the last tier
LastTierPrice(tiered_rates) == PricePerUnit(tiered_rates[Len(tiered_rates)])

\* unit_price = tiered_rates[0].get("unitPrice", {}) and its price
FirstTierPrice(tiered_rates) == PricePerUnit(tiered_rates[1])

\* region = sku['serviceRegions'][0] if sku.get('serviceRegions') else ""
SkuRegion(sku) == IF Len(sku.regions) > 0 THEN sku.regions[1] ELSE EmptyStr

SkuKey(sku) == <<sku.desc, SkuRegion(sku), sku.usage>>

\* the loop over sku.get("pricingInfo", []) of one record
RECURSIVE AddPricingInfo(_, _, _)
AddPricingInfo(map, sku, i) ==
    IF i > Len(sku.pricingInfo) THEN map
    ELSE LET tiered_rates == sku.pricingInfo[i]
             next == IF Len(tiered_rates) > 0
                     THEN DictSet(map, SkuKey(sku),
                                  FirstTierPrice(tiered_rates))
                     ELSE map
         IN  AddPricingInfo(next, sku, i + 1)

\* the body of "for sku in response.get('skus', [])" for one record;
\* sku['category'] raises KeyError when the record has no category
SkuRaises(sku) == ~sku.category

AddSku(map, sku) ==
    IF StrIn(ComputeEngine, sku.service)
    THEN AddPricingInfo(map, sku, 1)
    ELSE map

\* the for loop over one page: the map after it and whether it raised
RECURSIVE AddSkus(_, _, _)
AddSkus(map, skus, i) ==
    IF i > Len(skus) THEN [map |-> map, raised |-> FALSE]
    ELSE IF SkuRaises(skus[i]) THEN [map |-> map, raised |-> TRUE]
    ELSE AddSkus(AddSku(map, skus[i]), skus, i + 1)

\* nextPageToken of page n: the last page carries none
NextPageToken(n) == IF n < Len(pages) THEN n ELSE 0

\* if service is None or billing_account_id is None: return {}
FetchReturnEmpty ==
    /\ fetch_pc = "loop"
    /\ ~service
    /\ fetch_pc' = "done"
    /\ UNCHANGED <<service, pages, failAt, page_token, fetched,
                   skus_price_map, fetch_warned>>
    /\ UNCHANGED <<lookupVars, estVars, reviewVars, sessVars, submitVars,
                   inputVars>>

\* a plausible slip: the except clause returns an empty map
FetchPageFails_Reset ==
    /\ fetch_pc = "loop"
    /\ service
    /\ failAt = page_token + 1
    /\ fetched' = Append(fetched, page_token + 1)
    /\ fetch_warned' = TRUE
    /\ fetch_pc' = "done"
    /\ skus_price_map' = << >>
    /\ UNCHANGED <<service, pages, failAt, page_token>>
    /\ UNCHANGED <<lookupVars, estVars, reviewVars, sessVars, submitVars,
                   inputVars>>

\* one turn of "while True" whose execute() raises: the except clause warns
\* and the function returns the map as it is
FetchPageFails ==
    /\ fetch_pc = "loop"
    /\ service
    /\ failAt = page_token + 1
    /\ fetched' = Append(fetched, page_token + 1)
    /\ fetch_warned' = TRUE
    /\ fetch_pc' = "done"
    /\ UNCHANGED <<service, pages, failAt, page_token, skus_price_map>>
    /\ UNCHANGED <<lookupVars, estVars, reviewVars, sessVars, submitVars,
                   inputVars>>

\* one turn of "while True" whose execute() returns a page
FetchPage ==
    /\ fetch_pc = "loop"
    /\ service
    /\ failAt # page_token + 1
    /\ LET n == page_token + 1
           r == AddSkus(skus_price_map, pages[n], 1)
       IN  /\ fetched' = Append(fetched, n)
           /\ skus_price_map' = r.map
           /\ IF r.raised
              THEN /\ fetch_warned' = TRUE
                   /\ fetch_pc' = "done"
                   /\ UNCHANGED page_token
              ELSE /\ page_token' = NextPageToken(n)
                   /\ fetch_pc' = IF NextPageToken(n) = 0 THEN "done"
                                  ELSE "loop"
                   /\ UNCHANGED fetch_warned
    /\ UNCHANGED <<service, pages, failAt>>
    /\ UNCHANGED <<lookupVars, estVars, reviewVars, sessVars, submitVars,
                   inputVars>>

\* the page sequences the API may serve: a stream of records cut into pages
Cuts(n, np) ==
    {c \in [0..np -> 0..n] :
        /\ c[0] = 0
        /\ c[np] = n
        /\ \A i \in 1..np : c[i - 1] <= c[i]}

PageSeqs ==
    UNION {UNION {{[i \in 1..np |-> SubSeq(s, c[i - 1] + 1, c[i])] :
                      c \in Cuts(Len(s), np)} : np \in 1..MaxPages} :
           s \in SeqUpTo(SkuPool, MaxSkus)}

FetchStart ==
    /\ fetch_pc = "loop"
    /\ page_token = 0
    /\ fetched = << >>
    /\ skus_price_map = << >>
    /\ fetch_warned = FALSE

\* no fetch in progress (specifications of the other operations)
FetchIdle ==
    /\ service = FALSE
    /\ pages = << >>
    /\ failAt = 0
    /\ fetch_pc = "done"
    /\ page_token = 0
    /\ fetched = << >>
    /\ skus_price_map = << >>
    /\ fetch_warned = FALSE

----------------------------------------------------------------------------
(* The catalog a session holds: @st.cache_data and lines 218-219 *)

NoCache == [set |-> FALSE, map |-> << >>]
NotRead == [read |-> FALSE, map |-> << >>]

\* a plausible slip: the dict the build is filling is published while the
\* loop still runs
CacheStore_Early ==
    /\ fetch_pc \in {"loop", "done"}
    /\ ~cache_entry.set
    /\ cache_entry' = [set |-> TRUE, map |-> skus_price_map]
    /\ UNCHANGED <<session_map, reader_seen>>
    /\ UNCHANGED <<fetchVars, lookupVars, estVars, reviewVars, submitVars,
                   inputVars>>

\* st.cache_data stores the value the call returned
CacheStore ==
    /\ fetch_pc = "done"
    /\ ~cache_entry.set
    /\ cache_entry' = [set |-> TRUE, map |-> skus_price_map]
    /\ UNCHANGED <<session_map, reader_seen>>
    /\ UNCHANGED <<fetchVars, lookupVars, estVars, reviewVars, submitVars,
                   inputVars>>

\* a session whose skus_price_map is falsy calls fetch_pricing_skus and is
\* handed a copy of the cached value
SessionAssign ==
    /\ service
    /\ session_map = << >>
    /\ cache_entry.set
    /\ session_map' = cache_entry.map
    /\ UNCHANGED <<cache_entry, reader_seen>>
    /\ UNCHANGED <<fetchVars, lookupVars, estVars, reviewVars, submitVars,
                   inputVars>>

\* a render of the session reads st.session_state.skus_price_map
SessionRead ==
    /\ reader_seen' = [read |-> TRUE, map |-> session_map]
    /\ UNCHANGED <<cache_entry, session_map>>
    /\ UNCHANGED <<fetchVars, lookupVars, estVars, reviewVars, submitVars,
                   inputVars>>

SessionIdle ==
    /\ cache_entry = NoCache
    /\ session_map = << >>
    /\ reader_seen = NotRead

----------------------------------------------------------------------------
(* get_price_for_resource *)

Entry(d, r, u, p) == [key |-> <<d, r, u>>, price |-> p]

EntryPool ==
    {Entry(cpu_desc, UsCentral1, OnDemand, 30),
     Entry(cpu_desc, global, OnDemand, 50),
     Entry(memory_desc, UsCentral1, OnDemand, 10),
     Entry(SsdSkuDesc, UsCentral1, OnDemand, 1),
     Entry(cpu_desc, UsCentral1, Preemptible, 6),
     Entry(cpu_desc, AsiaEast1, OnDemand, 40),
     Entry(T4SkuDesc, EmptyStr, OnDemand, 350)}

\* the condition of the if inside the loop, for the item at position i
ItemMatches(resource_desc, region, usage_type, item) ==
    /\ StrIn(resource_desc, item.key[1])
    /\ (StrIn(region, item.key[2]) \/ item.key[2] = global)
    /\ item.key[3] = usage_type

\* a plausible slip: the loop keeps the last item that matches
FirstMatch_Last(resource_desc, region, usage_type, map) ==
    LET hits == {i \in 1..Len(map) :
                    ItemMatches(resource_desc, region, usage_type, map[i])}
    IN  IF hits = {} THEN 0
        ELSE CHOOSE i \in hits : \A j \in hits : i >= j

\* position of the item the loop returns at, 0 when it runs to the end
FirstMatch(resource_desc, region, usage_type, map) ==
    LET hits == {i \in 1..Len(map) :
                    ItemMatches(resource_desc, region, usage_type, map[i])}
    IN  IF hits = {} THEN 0
        ELSE CHOOSE i \in hits : \A j \in hits : i <= j

\* the returned price; None is [found |-> FALSE]
get_price_for_resource(resource_desc, region, usage_type, map) ==
    LET i == FirstMatch(resource_desc, region, usage_type, map)
    IN  IF i = 0 THEN [found |-> FALSE, at |-> 0, price |-> 0]
        ELSE [found |-> TRUE, at |-> i, price |-> map[i].price]

NoResult == [found |-> FALSE, at |-> 0, price |-> 0]

LookupDescs == {cpu_desc, memory_desc, storage_desc, T4, <<"N1">>}
LookupRegions == {UsCentral1, AsiaEast1, EmptyStr, Us, global}
LookupUsages == {OnDemand, Preemptible}

LookupCall ==
    /\ lk_pc = "call"
    /\ lk_result' = get_price_for_resource(lk_desc, lk_region, lk_usage, lk_map)
    /\ lk_pc' = "done"
    /\ UNCHANGED <<lk_map, lk_desc, lk_region, lk_usage>>
    /\ UNCHANGED <<fetchVars, estVars, reviewVars, sessVars, submitVars,
                   inputVars>>

LookupIdle ==
    /\ lk_map = << >>
    /\ lk_desc = EmptyStr
    /\ lk_region = EmptyStr
    /\ lk_usage = EmptyStr
    /\ lk_pc = "done"
    /\ lk_result = NoResult

----------------------------------------------------------------------------
(* Python values held by a configuration *)

\* t is the type; a str holds its tokens in s, where the token "#" stands for
\* the decimal digits of n and the token "Y-M-D" for the three dash-separated
\* numbers of ymd; a float holds its integral part in n; a date holds ymd
PyInt(n) == [t |-> "int", n |-> n, s |-> << >>, ymd |-> << >>]
PyFloat(n) == [t |-> "float", n |-> n, s |-> << >>, ymd |-> << >>]
PyStr(s) == [t |-> "str", n |-> 0, s |-> s, ymd |-> << >>]
PyNumStr(n) == [t |-> "str", n |-> n, s |-> <<"#">>, ymd |-> << >>]
PyDateStr(y, m, d) == [t |-> "str", n |-> 0, s |-> <<"Y-M-D">>,
                       ymd |-> <<y, m, d>>]
PyDate(y, m, d) == [t |-> "date", n |-> 0, s |-> << >>, ymd |-> <<y, m, d>>]
PyNone == [t |-> "none", n |-> 0, s |-> << >>, ymd |-> << >>]
PyList == [t |-> "list", n |-> 1, s |-> << >>, ymd |-> << >>]   \* non-empty
PyDict == [t |-> "dict", n |-> 1, s |-> << >>, ymd |-> << >>]   \* non-empty

\* bool(v)
Truthy(v) ==
    CASE v.t = "none" -> FALSE
      [] v.t \in {"int", "float"} -> v.n # 0
      [] v.t = "str" -> v.s # << >>
      [] v.t \in {"list", "dict"} -> v.n # 0
      [] OTHER -> TRUE

\* int(v) raises (TypeError or ValueError)
IntRaises(v) ==
    CASE v.t \in {"int", "float"} -> FALSE
      [] v.t = "str" -> v.s # <<"#">>
      [] OTHER -> TRUE

\* int(v) where it does not raise
IntOf(v) == v.n

\* str(v)
StrOf(v) ==
    CASE v.t = "str" -> v
      [] v.t = "int" -> PyNumStr(v.n)
      [] v.t = "none" -> PyStr(<<"None">>)
      [] v.t = "date" -> PyDateStr(v.ymd[1], v.ymd[2], v.ymd[3])
      [] OTHER -> PyStr(<<"repr">>)

\* config.get(k, default)
Get(config, k, default) == IF k \in DOMAIN config THEN config[k] ELSE default

\* config.pop(k, None) and config[k] = val
Pop(d, k) == [x \in DOMAIN d \ {k} |-> d[x]]
Put(d, k, val) == [x \in DOMAIN d \cup {k} |-> IF x = k THEN val ELSE d[x]]

\* calendar of datetime.date
IsLeap(y) == (y % 4 = 0) /\ ((y % 100 # 0) \/ (y % 400 = 0))
DaysInMonth(y, m) ==
    IF m = 2 THEN (IF IsLeap(y) THEN 29 ELSE 28)
    ELSE IF m \in {4, 6, 9, 11} THEN 30 ELSE 31
DaysBeforeMonth(y, m) ==
    <<0, 31, 59, 90, 120, 151, 181, 212, 243, 273, 304, 334>>[m]
    + (IF m > 2 /\ IsLeap(y) THEN 1 ELSE 0)
\* date(y, m, d).toordinal()
ToOrdinal(ymd) ==
    LET y == ymd[1] - 1
    IN  y * 365 + (y \div 4) - (y \div 100) + (y \div 400)
        + DaysBeforeMonth(ymd[1], ymd[2]) + ymd[3]

\* datetime.strptime(v, "%Y-%m-%d") raises ValueError
StrptimeRaises(v) ==
    \/ v.s # <<"Y-M-D">>
    \/ v.ymd[1] < 1 \/ v.ymd[1] > 9999
    \/ v.ymd[2] < 1 \/ v.ymd[2] > 12
    \/ v.ymd[3] < 1 \/ v.ymd[3] > DaysInMonth(v.ymd[1], v.ymd[2])

----------------------------------------------------------------------------
(* estimate_billing_cost_from_api *)

Max(a, b) == IF a >= b THEN a ELSE b

\* int(config.get(k, 0) or 0) inside try, 0 in the except clause
Quantity(config, k) ==
    LET v == Get(config, k, PyInt(0))
        w == IF Truthy(v) THEN v ELSE PyInt(0)
    IN  IF IntRaises(w) THEN 0 ELSE IntOf(w)

\* a plausible slip: the difference is not floored at 1
Days_NoFloor(config) ==
    LET a == StrOf(Get(config, "start_date", PyStr(<< >>)))
        b == StrOf(Get(config, "end_date", PyStr(<< >>)))
    IN  IF StrptimeRaises(a) \/ StrptimeRaises(b) THEN 1
        ELSE ToOrdinal(b.ymd) - ToOrdinal(a.ymd)

\* the try block of the dates: days, 1 in the except clause
Days(config) ==
    LET a == StrOf(Get(config, "start_date", PyStr(<< >>)))
        b == StrOf(Get(config, "end_date", PyStr(<< >>)))
    IN  IF StrptimeRaises(a) \/ StrptimeRaises(b) THEN 1
        ELSE Max(ToOrdinal(b.ymd) - ToOrdinal(a.ymd), 1)

\* gpu_desc_map.get(gpu_name, None); None is << >>
GpuDesc(gpu_name) == IF gpu_name \in {T4, A100, V100} THEN gpu_name ELSE << >>

\* a plausible slip: a missing price counts as 1
PriceOr0_One(resource_desc, region, usage_type, map) ==
    LET r == get_price_for_resource(resource_desc, region, usage_type, map)
    IN  IF r.found THEN r.price ELSE 1

\* get_price_for_resource(...) or 0
PriceOr0(resource_desc, region, usage_type, map) ==
    LET r == get_price_for_resource(resource_desc, region, usage_type, map)
    IN  IF r.found THEN r.price ELSE 0

\* round(x, 2) of a total of ticks, in cents: the nearest cent.  A total is a
\* multiple of 24 ticks, so it never lies halfway between two cents
TicksPerCent == PriceScale \div 100
Round2(ticks) == (ticks + (TicksPerCent \div 2)) \div TicksPerCent

\* a plausible slip: the memory term is left out of the total
estimate_NoMemory(config, region, map) ==
    LET vcpu_count == Quantity(config, "compute")
        storage_gb == Quantity(config, "storage")
        g == Get(config, "gpu", PyStr(<<"None">>))
        gpu_name == StrOf(IF Truthy(g) THEN g ELSE PyStr(<<"None">>)).s
        days == Days(config)
        cpu_price == PriceOr0(cpu_desc, region, OnDemand, map)
        storage_price == PriceOr0(storage_desc, region, OnDemand, map)
        gpu_desc == GpuDesc(gpu_name)
        gpu_price == IF gpu_desc # << >>
                     THEN PriceOr0(gpu_desc, region, OnDemand, map)
                     ELSE 0
        total_cost == ((cpu_price * vcpu_count) + (storage_price * storage_gb)
                       + gpu_price) * (days * 24)
    IN  [total |-> Round2(total_cost), days |-> days]

estimate_billing_cost_from_api(config, region, map) ==
    LET vcpu_count == Quantity(config, "compute")
        memory_gb == Quantity(config, "memory")
        storage_gb == Quantity(config, "storage")
        g == Get(config, "gpu", PyStr(<<"None">>))
        gpu_name == StrOf(IF Truthy(g) THEN g ELSE PyStr(<<"None">>)).s
        days == Days(config)
        usage_type == OnDemand
        cpu_price == PriceOr0(cpu_desc, region, usage_type, map)
        mem_price == PriceOr0(memory_desc, region, usage_type, map)
        storage_price == PriceOr0(storage_desc, region, usage_type, map)
        gpu_desc == GpuDesc(gpu_name)
        gpu_price == IF gpu_desc # << >>
                     THEN PriceOr0(gpu_desc, region, usage_type, map)
                     ELSE 0
        hours == days * 24
        total_cost == ((cpu_price * vcpu_count) + (mem_price * memory_gb)
                       + (storage_price * storage_gb) + gpu_price) * hours
    IN  [total |-> Round2(total_cost), days |-> days]

NoEstimate == [total |-> 0, days |-> 0]

\* a plausible slip: the function writes the coerced quantities back into
\* the config it was given
EstimateCall_WritesBack ==
    /\ est_pc = "call"
    /\ est_result' = estimate_billing_cost_from_api(est_config, est_region,
                                                    est_map)
    /\ est_config' = Put(Put(Put(est_config,
                                 "compute", PyInt(Quantity(est_config, "compute"))),
                             "memory", PyInt(Quantity(est_config, "memory"))),
                         "storage", PyInt(Quantity(est_config, "storage")))
    /\ est_pc' = "done"
    /\ UNCHANGED <<est_region, est_map>>
    /\ UNCHANGED <<fetchVars, lookupVars, reviewVars, sessVars, submitVars,
                   inputVars>>

EstimateCall ==
    /\ est_pc = "call"
    /\ est_result' = estimate_billing_cost_from_api(est_config, est_region,
                                                    est_map)
    /\ est_pc' = "done"
    /\ UNCHANGED <<est_config, est_region, est_map>>
    /\ UNCHANGED <<fetchVars, lookupVars, reviewVars, sessVars, submitVars,
                   inputVars>>

\* the same call made again on the arguments the first call left
EstimateAgain ==
    /\ est_pc = "done"
    /\ est_result' = estimate_billing_cost_from_api(est_config, est_region,
                                                    est_map)
    /\ est_pc' = "again"
    /\ UNCHANGED <<est_config, est_region, est_map>>
    /\ UNCHANGED <<fetchVars, lookupVars, reviewVars, sessVars, submitVars,
                   inputVars>>

EstimateIdle ==
    /\ est_config = << >>
    /\ est_region = EmptyStr
    /\ est_map = << >>
    /\ est_pc = "done"
    /\ est_result = NoEstimate

\* the price maps handed to an estimate: the items of FullCatalog that a
\* partial ingestion kept, in their order
FullCatalog ==
    <<Entry(cpu_desc, UsCentral1, OnDemand, 30),
      Entry(cpu_desc, global, OnDemand, 50),
      Entry(memory_desc, UsCentral1, OnDemand, 10),
      Entry(SsdSkuDesc, UsCentral1, OnDemand, 1),
      Entry(T4SkuDesc, UsCentral1, OnDemand, 350)>>

RECURSIVE Pick(_, _, _)
Pick(full, S, i) ==
    IF i > Len(full) THEN << >>
    ELSE IF i \in S THEN <<full[i]>> \o Pick(full, S, i + 1)
    ELSE Pick(full, S, i + 1)

EstimateCatalogs == {Pick(FullCatalog, S, 1) : S \in SUBSET (1..Len(FullCatalog))}

\* the configurations handed to an estimate: each field absent or one of
\* the listed values
Absent == [t |-> "absent", n |-> 0, s |-> << >>, ymd |-> << >>]
ComputeValues == {Absent, PyInt(4), PyStr(<<"eight">>)}
MemoryValues == {Absent, PyInt(16), PyNumStr(8)}
StorageValues == {PyNone, PyInt(100), PyFloat(2)}
GpuValues == {Absent, PyStr(<<"None">>), PyStr(T4), PyNone,
              PyStr(<<"NVIDIA", "K80">>), PyStr(<<"T4">>)}
StartValues == {PyStr(<<"Aug", "20">>), PyDateStr(2025, 8, 1),
                PyDateStr(2024, 2, 28), PyDateStr(2025, 2, 30)}
EndValues == {Absent, PyDateStr(2025, 8, 3), PyDateStr(2024, 3, 1),
              PyDateStr(2025, 8, 1)}

EstimateFields == <<"compute", "memory", "storage", "gpu", "start_date",
                    "end_date">>

\* the dict with the fields of the tuple vs that are not Absent
MkConfig(vs) ==
    [k \in {EstimateFields[i] : i \in {j \in 1..Len(vs) : vs[j] # Absent}} |->
        vs[CHOOSE i \in 1..Len(vs) : EstimateFields[i] = k]]

EstimateConfigs ==
    {MkConfig(vs) : vs \in ComputeValues \X MemoryValues \X StorageValues
                            \X GpuValues \X StartValues \X EndValues}

EstimateRegions == {UsCentral1, AsiaEast1}

----------------------------------------------------------------------------
(* The review page: keep boxes, sliders, estimate, other fields *)

Updated == "Updated/app.py"
AppMain == "InfraMarketPlace/app_main.py"
FrontendRec == "Frontend/recommendation.py"
TestRecUi == "Test/recommendation_ui.py"
Variants == {Updated, AppMain, FrontendRec, TestRecUi}

\* the pages that are a function of the recommendation: they copy it into
\* editable_rec on their first run
StandalonePages == {FrontendRec, TestRecUi}

\* the scripts that show the review block under their own input form
FrontendApp == "Frontend/app.py"
TestDummy == "Test/dummy.py"
SubmitApps == {FrontendApp, TestDummy}

\* the quantified fields, in the order the page walks them
FieldNames(v) ==
    IF v = Updated THEN <<"compute", "memory", "storage", "budget">>
    ELSE <<"compute", "storage", "budget">>
AllFields == {"compute", "memory", "storage", "budget"}

\* editable_fields[field]["min"] and ["max"]
SliderMin(v, f) ==
    CASE f = "compute" -> 1
      [] f = "memory" -> 1
      [] f = "storage" -> IF v = Updated THEN 1 ELSE 10
      [] f = "budget" -> 0
SliderMax(v, f) ==
    CASE f = "compute" -> 128
      [] f = "memory" -> 1024
      [] f = "storage" -> (CASE v = FrontendRec -> 4000
                             [] v \in {TestRecUi, FrontendApp} -> 10000
                             [] OTHER -> 20000)
      [] f = "budget" -> IF v = FrontendRec THEN 10000 ELSE 100000

\* defaults = {"compute": 4, "memory": 16, "storage": 100, "budget": 1000}
defaults(f) ==
    CASE f = "compute" -> 4
      [] f = "memory" -> 16
      [] f = "storage" -> 100
      [] f = "budget" -> 1000

\* list and dict operations
InList(x, l) == \E i \in 1..Len(l) : l[i] = x
RECURSIVE ListRemove(_, _)
ListRemove(l, x) ==     \* l.remove(x): drops the first x
    IF l = << >> THEN << >>
    ELSE IF Head(l) = x THEN Tail(l)
    ELSE <<Head(l)>> \o ListRemove(Tail(l), x)

\* the value st.checkbox returns for keep_<f>: the browser's value when the
\* last run rendered the box, else value = (f not in removed_fields)
KeepValue(f, removed) == IF f \in keep_shown THEN keep[f] ELSE ~InList(f, removed)

\* a plausible slip: a removed field is not popped from editable_rec
KeepStep_NoPop(v, st, f) ==
    LET k == KeepValue(f, st.removed)
        shown == [st EXCEPT !.kept = Put(st.kept, f, k)]
    IN  IF ~k /\ ~InList(f, st.removed)
        THEN [shown EXCEPT !.removed = Append(st.removed, f)]
        ELSE IF k /\ InList(f, st.removed)
        THEN [shown EXCEPT !.removed = ListRemove(st.removed, f),
                           !.rec = IF f \notin DOMAIN st.rec /\ v # FrontendRec
                                   THEN Put(st.rec, f, PyInt(defaults(f)))
                                   ELSE st.rec]
        ELSE shown

\* a plausible slip: the restore branch writes the fallback of
\* defaults.get(field, 0) and not the entry of the table
KeepStep_RestoreZero(v, st, f) ==
    LET k == KeepValue(f, st.removed)
        shown == [st EXCEPT !.kept = Put(st.kept, f, k)]
    IN  IF ~k /\ ~InList(f, st.removed)
        THEN [shown EXCEPT !.removed = Append(st.removed, f),
                           !.rec = Pop(st.rec, f)]
        ELSE IF k /\ InList(f, st.removed)
        THEN [shown EXCEPT !.removed = ListRemove(st.removed, f),
                           !.rec = IF f \notin DOMAIN st.rec /\ v # FrontendRec
                                   THEN Put(st.rec, f, PyInt(0))
                                   ELSE st.rec]
        ELSE shown

\* one turn of the keep-box loop, on st = [rec, removed, kept]
\* (kept: the value each rendered box returned)
KeepStep(v, st, f) ==
    LET k == KeepValue(f, st.removed)
        shown == [st EXCEPT !.kept = Put(st.kept, f, k)]
    IN  IF ~k /\ ~InList(f, st.removed)
        THEN [shown EXCEPT !.removed = Append(st.removed, f),
                           !.rec = Pop(st.rec, f)]
        ELSE IF k /\ InList(f, st.removed)
        THEN [shown EXCEPT !.removed = ListRemove(st.removed, f),
                           !.rec = IF f \notin DOMAIN st.rec /\ v # FrontendRec
                                   THEN Put(st.rec, f, PyInt(defaults(f)))
                                   ELSE st.rec]
        ELSE shown

\* the fields the loop walks: all of them, or in Frontend/recommendation.py
\* those that are keys of editable_rec when the loop starts
KeepLoopFields(v, rec) ==
    IF v = FrontendRec
    THEN SelectSeq(FieldNames(v), LAMBDA f : f \in DOMAIN rec)
    ELSE FieldNames(v)

RECURSIVE KeepFold(_, _, _, _)
KeepFold(v, st, fs, i) ==
    IF i > Len(fs) THEN st ELSE KeepFold(v, KeepStep(v, st, fs[i]), fs, i + 1)

\* the keep-box loop and st.session_state.removed_fields = removed_fields
KeepLoop ==
    /\ render_pc = "keep"
    /\ LET st == KeepFold(variant,
                          [rec |-> editable_rec, removed |-> removed_fields,
                           kept |-> << >>],
                          KeepLoopFields(variant, editable_rec), 1)
       IN  /\ editable_rec' = st.rec
           /\ removed_fields' = st.removed
           /\ keep_shown' = DOMAIN st.kept
           /\ keep' = [f \in AllFields |->
                          IF f \in DOMAIN st.kept THEN st.kept[f] ELSE TRUE]
    /\ render_pc' = "sliders"
    /\ UNCHANGED <<variant, has_editable_rec, genai_result, slider_shown,
                   slider_move, render_raised, warned, shown_cost>>
    /\ UNCHANGED <<fetchVars, lookupVars, estVars, sessVars, submitVars,
                   inputVars>>

\* the fields the slider loop walks
SliderLoopFields(v, rec, removed) ==
    IF v = Updated
    THEN SelectSeq(FieldNames(v), LAMBDA f : ~InList(f, removed))
    ELSE SelectSeq(FieldNames(v), LAMBDA f : f \in DOMAIN rec)

\* the value passed to st.slider for val_raw, and what the turn does before:
\* "skip" (continue), "raise" (int() propagates) or "show"
SliderPlan(v, val_raw, f) ==
    CASE v = Updated ->
            IF val_raw.t \in {"dict", "list"}
            THEN [do |-> "skip", val |-> 0, warn |-> TRUE]
            ELSE IF IntRaises(val_raw)
            THEN [do |-> "show", val |-> SliderMin(v, f), warn |-> TRUE]
            ELSE [do |-> "show", val |-> IntOf(val_raw), warn |-> FALSE]
      [] v = AppMain ->
            IF val_raw.t \in {"dict", "list"} \/ IntRaises(val_raw)
            THEN [do |-> "skip", val |-> 0, warn |-> TRUE]
            ELSE [do |-> "show", val |-> IntOf(val_raw), warn |-> FALSE]
      [] v = FrontendRec ->
            IF val_raw.t \in {"int", "float"}
            THEN [do |-> "show", val |-> IntOf(val_raw), warn |-> FALSE]
            ELSE [do |-> "show", val |-> SliderMin(v, f), warn |-> FALSE]
      [] v \in {TestRecUi} \cup SubmitApps ->
            IF IntRaises(val_raw)
            THEN [do |-> "raise", val |-> 0, warn |-> FALSE]
            ELSE [do |-> "show", val |-> IntOf(val_raw), warn |-> FALSE]

\* one turn of the slider loop, on st = [rec, raised, warned, shown];
\* st.slider raises when value is outside min_value..max_value, and returns
\* the value the user dragged it to, else value
SliderStep(v, st, f, move) ==
    LET val_raw == Get(st.rec, f, PyInt(0))
        plan == SliderPlan(v, val_raw, f)
        st1 == IF plan.warn THEN [st EXCEPT !.warned = @ \cup {f}] ELSE st
    IN  IF plan.do = "skip" THEN st1
        ELSE IF plan.do = "raise" THEN [st1 EXCEPT !.raised = TRUE]
        ELSE IF plan.val < SliderMin(v, f) \/ plan.val > SliderMax(v, f)
        THEN [st1 EXCEPT !.raised = TRUE]
        ELSE LET new_val == IF move # << >> /\ move[1] = f THEN move[2]
                            ELSE plan.val
             IN  [st1 EXCEPT !.rec = Put(st.rec, f, PyInt(new_val)),
                             !.shown = @ \cup {f}]

RECURSIVE SliderFold(_, _, _, _, _)
SliderFold(v, st, fs, i, move) ==
    IF i > Len(fs) \/ st.raised THEN st
    ELSE SliderFold(v, SliderStep(v, st, fs[i], move), fs, i + 1, move)

\* the slider loop; an exception ends the run where it is
SliderLoop ==
    /\ render_pc = "sliders"
    /\ LET st == SliderFold(variant,
                            [rec |-> editable_rec, raised |-> FALSE,
                             warned |-> {}, shown |-> {}],
                            SliderLoopFields(variant, editable_rec,
                                             removed_fields), 1, slider_move)
       IN  /\ editable_rec' = st.rec
           /\ render_raised' = st.raised
           /\ warned' = st.warned
           /\ slider_shown' = st.shown
           /\ render_pc' = IF st.raised THEN "idle"
                           ELSE IF variant = Updated THEN "estimate"
                           ELSE "others"
    /\ slider_move' = << >>
    /\ UNCHANGED <<variant, has_editable_rec, genai_result, removed_fields,
                   keep, keep_shown, shown_cost>>
    /\ UNCHANGED <<fetchVars, lookupVars, estVars, sessVars, submitVars,
                   inputVars>>

\* editable_rec.get("region", "us-central1")
RegionOf(rec) == Get(rec, "region", PyStr(UsCentral1))

\* get_price_for_resource raises TypeError: at the first item whose
\* description holds resource_desc it evaluates region in rgn, which a region
\* that is not a str does not support
LookupRaises(resource_desc, region, map) ==
    /\ region.t # "str"
    /\ \E i \in 1..Len(map) : StrIn(resource_desc, map[i].key[1])

\* the lookups of an estimate, the GPU one when gpu_desc is truthy
EstimateRaises(config, region, map) ==
    LET g == Get(config, "gpu", PyStr(<<"None">>))
        gpu_desc == GpuDesc(StrOf(IF Truthy(g) THEN g ELSE PyStr(<<"None">>)).s)
    IN  \/ LookupRaises(cpu_desc, region, map)
        \/ LookupRaises(memory_desc, region, map)
        \/ LookupRaises(storage_desc, region, map)
        \/ (gpu_desc # << >> /\ LookupRaises(gpu_desc, region, map))

\* the estimate shown under the sliders (Updated/app.py:433-435)
RenderEstimate ==
    /\ render_pc = "estimate"
    /\ LET region == RegionOf(editable_rec)
       IN  IF EstimateRaises(editable_rec, region, session_map)
           THEN /\ render_raised' = TRUE
                /\ render_pc' = "idle"
                /\ UNCHANGED shown_cost
           ELSE /\ shown_cost' = estimate_billing_cost_from_api(
                                    editable_rec, region.s, session_map)
                /\ render_pc' = "others"
                /\ UNCHANGED render_raised
    /\ UNCHANGED <<variant, has_editable_rec, genai_result, editable_rec,
                   removed_fields, keep, keep_shown, slider_shown,
                   slider_move, warned>>
    /\ UNCHANGED <<fetchVars, lookupVars, estVars, sessVars, submitVars,
                   inputVars>>

\* date.today() of the session
Today == <<2025, 8, 15>>

\* the keys of editable_rec that are not in editable_fields, in the order the
\* loop meets them; memory is one of them where the page has no memory slider
OtherFieldOrder(v) ==
    CASE v = Updated -> <<"region", "start_date", "end_date">>
      [] v \in SubmitApps -> <<"project_name", "region", "start_date",
                               "end_date", "environment">>
      [] OTHER -> <<"memory", "region", "start_date", "end_date">>
OtherFields(v, rec) ==
    SelectSeq(OtherFieldOrder(v), LAMBDA f : f \in DOMAIN rec)

\* display_val of Updated/app.py:446-457
DisplayVal(val) ==
    CASE val.t \in {"dict", "list"} -> PyStr(<<"repr">>)
      [] val.t = "none" -> PyStr(<< >>)
      [] OTHER -> val

\* what st.text_input(value=val) returns when the user types nothing: the
\* value cast to str; for None the installed Streamlit decides between None
\* (none_kept) and the cast "None"
TextInput(val, none_kept) ==
    IF val.t = "none" /\ none_kept THEN val ELSE StrOf(val)

\* datetime.strptime(val, "%Y-%m-%d") raises: TypeError for a value that is
\* not a str, ValueError for a str of another shape or no calendar date
DateParseFails(val) == val.t # "str" \/ StrptimeRaises(val)

\* the turn of the other-fields loop for start_date or end_date holding val:
\* whether it raises, and the value it stores.  In Frontend/recommendation.py
\* the second run passes value = today for the date object the first run
\* stored; retained says whether st.date_input keeps the date it showed
DateStep(v, val, retained) ==
    CASE v = Updated ->
            LET s == StrOf(DisplayVal(val))
                dt == IF StrptimeRaises(s) THEN Today ELSE s.ymd
            IN  [raised |-> FALSE, val |-> PyDateStr(dt[1], dt[2], dt[3])]
      [] v \in {AppMain, TestRecUi} \cup SubmitApps ->
            LET dt == IF DateParseFails(val) THEN Today ELSE val.ymd
            IN  [raised |-> FALSE, val |-> PyDateStr(dt[1], dt[2], dt[3])]
      [] v = FrontendRec ->
            IF val.t = "str"
            THEN IF StrptimeRaises(val)
                 THEN [raised |-> TRUE, val |-> val]
                 ELSE [raised |-> FALSE,
                       val |-> PyDate(val.ymd[1], val.ymd[2], val.ymd[3])]
            ELSE IF val.t = "date" /\ retained
            THEN [raised |-> FALSE, val |-> val]
            ELSE [raised |-> FALSE,
                  val |-> PyDate(Today[1], Today[2], Today[3])]

\* one turn of the other-fields loop, on st = [rec, raised]; w holds the
\* choices of the widgets, [retained, none_kept]
OtherStep(v, st, f, w) ==
    LET val == st.rec[f]
    IN  IF f \in {"start_date", "end_date"}
        THEN LET r == DateStep(v, val, w.retained)
             IN  IF r.raised THEN [st EXCEPT !.raised = TRUE]
                 ELSE [st EXCEPT !.rec = Put(st.rec, f, r.val)]
        ELSE IF v = Updated
        THEN [st EXCEPT !.rec = Put(st.rec, f, StrOf(DisplayVal(val)))]
        ELSE [st EXCEPT !.rec = Put(st.rec, f, TextInput(val, w.none_kept))]

RECURSIVE OtherFold(_, _, _, _, _)
OtherFold(v, st, fs, i, w) ==
    IF i > Len(fs) \/ st.raised THEN st
    ELSE OtherFold(v, OtherStep(v, st, fs[i], w), fs, i + 1, w)

\* the choices st.date_input has for a date it showed in the last run
Retentions(v, rec) ==
    IF v = FrontendRec
       /\ \E f \in {"start_date", "end_date"} :
             f \in DOMAIN rec /\ rec[f].t = "date"
    THEN BOOLEAN ELSE {FALSE}

\* the choices st.text_input has for a value that is None
NoneChoices(v, rec) ==
    IF v # Updated
       /\ \E f \in {"memory", "region"} : f \in DOMAIN rec /\ rec[f].t = "none"
    THEN BOOLEAN ELSE {FALSE}

\* the other-fields loop; an exception ends the run where it is
OthersLoop ==
    /\ render_pc = "others"
    /\ \E retained \in Retentions(variant, editable_rec) :
       \E none_kept \in NoneChoices(variant, editable_rec) :
          LET st == OtherFold(variant, [rec |-> editable_rec, raised |-> FALSE],
                              OtherFields(variant, editable_rec), 1,
                              [retained |-> retained, none_kept |-> none_kept])
          IN  /\ editable_rec' = st.rec
              /\ render_raised' = st.raised
    /\ render_pc' = "idle"
    /\ UNCHANGED <<variant, has_editable_rec, genai_result, removed_fields,
                   keep, keep_shown, slider_shown, slider_move, warned,
                   shown_cost>>
    /\ UNCHANGED <<fetchVars, lookupVars, estVars, sessVars, submitVars,
                   inputVars>>

\* what call_gemini / the caller of show_recommendation_ui may hand over
ReviewConfigs ==
    {<< >>,
     [compute |-> PyInt(8), memory |-> PyInt(32), storage |-> PyInt(200),
      budget |-> PyInt(1500), region |-> PyStr(UsCentral1),
      start_date |-> PyDateStr(2025, 8, 1),
      end_date |-> PyDateStr(2025, 8, 3)],
     [compute |-> PyInt(16), memory |-> PyInt(64), storage |-> PyInt(128),
      budget |-> PyInt(2000), start_date |-> PyStr(<<"Aug", "20">>),
      end_date |-> PyNone],
     [compute |-> PyStr(<<"eight">>), memory |-> PyNone, storage |-> PyList,
      budget |-> PyNumStr(1500), region |-> PyNone]}

\* extract_json results: {} , a dict without config, a dict with config
GenaiResults ==
    {<< >>, [error |-> << >>]} \cup {[config |-> c] : c \in ReviewConfigs}

\* dict(res.get("config", {}))
ConfigOf(res) == IF "config" \in DOMAIN res THEN res["config"] ELSE << >>

\* a plausible slip: every render calls the model and resets editable_rec
Generate_Always ==
    /\ render_pc = "gen"
    /\ variant \in {Updated, AppMain}
    /\ \E res \in GenaiResults :
          /\ genai_result' = res
          /\ editable_rec' = ConfigOf(res)
    /\ render_pc' = "keep"
    /\ render_raised' = FALSE
    /\ warned' = {}
    /\ UNCHANGED <<variant, has_editable_rec, removed_fields, keep,
                   keep_shown, slider_shown, slider_move, shown_cost>>
    /\ UNCHANGED <<fetchVars, lookupVars, estVars, sessVars, submitVars,
                   inputVars>>

\* if not st.session_state.genai_result: call the model and reset
\* editable_rec (Updated/app.py:352-356, app_main.py:181-186)
Generate ==
    /\ render_pc = "gen"
    /\ variant \in {Updated, AppMain}
    /\ IF genai_result = << >>
       THEN \E res \in GenaiResults :
               /\ genai_result' = res
               /\ editable_rec' = ConfigOf(res)
       ELSE UNCHANGED <<genai_result, editable_rec>>
    /\ render_pc' = "keep"
    /\ render_raised' = FALSE
    /\ warned' = {}
    /\ UNCHANGED <<variant, has_editable_rec, removed_fields, keep,
                   keep_shown, slider_shown, slider_move, shown_cost>>
    /\ UNCHANGED <<fetchVars, lookupVars, estVars, sessVars, submitVars,
                   inputVars>>

\* a plausible slip: every run copies the recommendation
SessionRec_Overwrites(recommendation) == recommendation

\* if 'editable_rec' not in st.session_state:
\*     st.session_state.editable_rec = recommendation.copy()
\* and st.session_state.editable_rec after it
SessionRec(recommendation) ==
    IF has_editable_rec THEN editable_rec ELSE recommendation

\* the initialisation of a page that is a function of the recommendation
\* (Frontend/recommendation.py:6-10, Test/recommendation_ui.py:14-17)
InitEditable ==
    /\ render_pc = "gen"
    /\ variant \in StandalonePages
    /\ \E recommendation \in ReviewConfigs :
          editable_rec' = SessionRec(recommendation)
    /\ has_editable_rec' = TRUE
    /\ render_pc' = "keep"
    /\ render_raised' = FALSE
    /\ warned' = {}
    /\ UNCHANGED <<variant, genai_result, removed_fields, keep, keep_shown,
                   slider_shown, slider_move, shown_cost>>
    /\ UNCHANGED <<fetchVars, lookupVars, estVars, sessVars, submitVars,
                   inputVars>>

\* the user clicks a keep box the page shows; the script reruns
ToggleKeep ==
    /\ render_pc = "idle"
    /\ \E f \in keep_shown : keep' = [keep EXCEPT ![f] = ~keep[f]]
    /\ render_pc' = "gen"
    /\ UNCHANGED <<variant, has_editable_rec, genai_result, editable_rec,
                   removed_fields, keep_shown, slider_shown, slider_move,
                   render_raised, warned, shown_cost>>
    /\ UNCHANGED <<fetchVars, lookupVars, estVars, sessVars, submitVars,
                   inputVars>>

\* the values a user drags a slider to
SliderPicks(v, f) == {SliderMax(v, f)}

\* the user drags a slider the page shows; the script reruns
MoveSlider ==
    /\ render_pc = "idle"
    /\ \E f \in slider_shown : \E x \in SliderPicks(variant, f) :
          slider_move' = <<f, x>>
    /\ render_pc' = "gen"
    /\ UNCHANGED <<variant, has_editable_rec, genai_result, editable_rec,
                   removed_fields, keep, keep_shown, slider_shown,
                   render_raised, warned, shown_cost>>
    /\ UNCHANGED <<fetchVars, lookupVars, estVars, sessVars, submitVars,
                   inputVars>>

\* any other widget event (a button): the script reruns
Rerun ==
    /\ render_pc = "idle"
    /\ render_pc' = "gen"
    /\ UNCHANGED <<variant, has_editable_rec, genai_result, editable_rec,
                   removed_fields, keep, keep_shown, slider_shown,
                   slider_move, render_raised, warned, shown_cost>>
    /\ UNCHANGED <<fetchVars, lookupVars, estVars, sessVars, submitVars,
                   inputVars>>

ReviewIdle ==
    /\ variant = Updated
    /\ has_editable_rec = TRUE
    /\ genai_result = << >>
    /\ editable_rec = << >>
    /\ removed_fields = << >>
    /\ keep = [f \in AllFields |-> TRUE]
    /\ keep_shown = {}
    /\ slider_shown = {}
    /\ slider_move = << >>
    /\ render_pc = "off"
    /\ render_raised = FALSE
    /\ warned = {}
    /\ shown_cost = NoEstimate

----------------------------------------------------------------------------
(* The marketplace script: input form, review block, submit button         *)
(* (src/Frontend/app.py, src/Test/dummy.py)                                *)

\* the options of the environment selectbox that the script tells apart
Environments == {"Development", "Production"}
InputModes == {"form", "chat"}

\* what the user has typed into the number inputs when the form is submitted
FormComputes == {1, 16}
FormStorages == {0, 128}
FormBudgets == {0, 2000}

\* SN_INSTANCE_URL, SN_USER and SN_PASSWORD are names of the module: their
\* assignments are commented out
SnDefined == FALSE

\* full_software_list when nothing is selected
NoSoftware == [t |-> "list", n |-> 0, s |-> << >>, ymd |-> << >>]

\* the dates a session may run on
TodayValues == {Today, <<2025, 8, 24>>, <<2025, 8, 25>>}

PyToday == PyDateStr(today[1], today[2], today[3])

\* the recommendation the submitted form builds; of the text fields the
\* model keeps project_name, region and environment
FormRecommendation(compute, storage, budget, e) ==
    [project_name |-> PyStr(<<"demo">>),
     compute |-> PyInt(compute),
     storage |-> PyInt(storage),
     region |-> PyStr(UsCentral1),
     start_date |-> PyToday,
     end_date |-> PyToday,
     budget |-> PyInt(budget),
     environment |-> PyStr(<<e>>)]

\* date.today().replace(day=date.today().day + 7) raises ValueError
ReplaceDayRaises == today[3] + 7 > DaysInMonth(today[1], today[2])

\* the mocked recommendation of the chatbot mode
MockRecommendation(e) ==
    [project_name |-> PyStr(<<"AI", "Hackathon", "Project">>),
     compute |-> PyInt(16),
     storage |-> PyInt(128),
     region |-> PyStr(UsCentral1),
     start_date |-> PyToday,
     end_date |-> PyDateStr(today[1], today[2], today[3] + 7),
     budget |-> PyInt(2000),
     environment |-> PyStr(<<e>>)]

\* servicenow_api_post(api_path, payload): the f-string reads
\* SN_INSTANCE_URL before anything is sent
servicenow_api_post(sent, api_path, payload) ==
    IF SnDefined
    THEN [raised |-> FALSE,
          sent |-> Append(sent, [path |-> api_path, data |-> payload])]
    ELSE [raised |-> TRUE, sent |-> sent]

\* create_change_request(data) for Production, else
\* create_approval_request(data)
SubmitRequest(sent, e, data) ==
    IF e = "Production"
    THEN servicenow_api_post(sent, "change_request", data)
    ELSE servicenow_api_post(sent, "your_custom_approval_table", data)

\* the user picks another environment or input method; the script reruns
ChangeChoice ==
    /\ sub_pc = "idle"
    /\ \/ /\ env' \in Environments \ {env}
          /\ mode' = mode
       \/ /\ mode' \in InputModes \ {mode}
          /\ env' = env
    /\ sub_event' = "other"
    /\ sub_pc' = "top"
    /\ UNCHANGED <<app_rec, submit_shown, posted, today>>
    /\ UNCHANGED <<fetchVars, lookupVars, estVars, reviewVars, sessVars,
                   inputVars>>

\* the user clicks "Get Recommendation" of the form; the script reruns
ClickGetRecommendation ==
    /\ sub_pc = "idle"
    /\ mode = "form"
    /\ sub_event' = "get"
    /\ sub_pc' = "top"
    /\ UNCHANGED <<env, mode, app_rec, submit_shown, posted, today>>
    /\ UNCHANGED <<fetchVars, lookupVars, estVars, reviewVars, sessVars,
                   inputVars>>

\* the user clicks "Analyze" of the chatbot mode; the script reruns
ClickAnalyze ==
    /\ sub_pc = "idle"
    /\ mode = "chat"
    /\ sub_event' = "analyze"
    /\ sub_pc' = "top"
    /\ UNCHANGED <<env, mode, app_rec, submit_shown, posted, today>>
    /\ UNCHANGED <<fetchVars, lookupVars, estVars, reviewVars, sessVars,
                   inputVars>>

\* the user clicks a keep box of the review block; the script reruns
ClickKeepBox ==
    /\ sub_pc = "idle"
    /\ \E f \in keep_shown : keep' = [keep EXCEPT ![f] = ~keep[f]]
    /\ sub_event' = "other"
    /\ sub_pc' = "top"
    /\ UNCHANGED <<env, mode, app_rec, submit_shown, posted, today>>
    /\ UNCHANGED <<variant, has_editable_rec, genai_result, editable_rec,
                   removed_fields, keep_shown, slider_shown, slider_move,
                   render_pc, render_raised, warned, shown_cost>>
    /\ UNCHANGED <<fetchVars, lookupVars, estVars, sessVars,
                   inputVars>>

\* the user clicks "Submit for Approval & Start Procurement", which the
\* last run rendered; the script reruns
ClickSubmit ==
    /\ sub_pc = "idle"
    /\ submit_shown
    /\ sub_event' = "submit"
    /\ sub_pc' = "top"
    /\ UNCHANGED <<env, mode, app_rec, submit_shown, posted, today>>
    /\ UNCHANGED <<fetchVars, lookupVars, estVars, reviewVars, sessVars,
                   inputVars>>

\* the script from recommendation = {} to the review block: the
\* recommendation is built in the run its own button triggered
ScriptTop ==
    /\ sub_pc = "top"
    /\ \/ /\ mode = "form" /\ sub_event = "get"
          /\ \E c \in FormComputes, s \in FormStorages, b \in FormBudgets :
                app_rec' = FormRecommendation(c, s, b, env)
          /\ sub_pc' = "review"
          /\ render_raised' = FALSE
       \/ /\ mode = "chat" /\ sub_event = "analyze"
          /\ \E text_blank \in BOOLEAN :
                IF text_blank
                THEN app_rec' = << >> /\ sub_pc' = "review"
                     /\ render_raised' = FALSE
                ELSE IF ReplaceDayRaises
                THEN app_rec' = << >> /\ sub_pc' = "idle"
                     /\ render_raised' = TRUE
                ELSE app_rec' = MockRecommendation(env) /\ sub_pc' = "review"
                     /\ render_raised' = FALSE
       \/ /\ ~(mode = "form" /\ sub_event = "get")
          /\ ~(mode = "chat" /\ sub_event = "analyze")
          /\ app_rec' = << >>
          /\ sub_pc' = "review"
          /\ render_raised' = FALSE
    /\ UNCHANGED <<env, mode, sub_event, submit_shown, posted, today>>
    /\ UNCHANGED <<variant, has_editable_rec, genai_result, editable_rec,
                   removed_fields, keep, keep_shown, slider_shown,
                   slider_move, render_pc, warned, shown_cost>>
    /\ UNCHANGED <<fetchVars, lookupVars, estVars, sessVars,
                   inputVars>>

\* if recommendation: the review block, the software selection and the
\* submit button, whose branch runs when the button reads true; a widget the
\* run does not render loses its state.  The turn of the other-fields loop
\* for software_to_install stores a str that the assignment after the loop
\* overwrites
ReviewBlock ==
    /\ sub_pc = "review"
    /\ IF app_rec = << >>
       THEN /\ keep_shown' = {}
            /\ slider_shown' = {}
            /\ submit_shown' = FALSE
            /\ UNCHANGED <<has_editable_rec, editable_rec, removed_fields,
                           keep, render_raised, warned, posted>>
       ELSE LET rec0 == SessionRec(app_rec)
                k == KeepFold(variant,
                              [rec |-> rec0, removed |-> removed_fields,
                               kept |-> << >>],
                              KeepLoopFields(variant, rec0), 1)
                s == SliderFold(variant,
                                [rec |-> k.rec, raised |-> FALSE,
                                 warned |-> {}, shown |-> {}],
                                SliderLoopFields(variant, k.rec, k.removed),
                                1, << >>)
                o == OtherFold(variant, [rec |-> s.rec, raised |-> FALSE],
                               OtherFields(variant, s.rec), 1,
                               [retained |-> FALSE, none_kept |-> FALSE])
                rec1 == Put(o.rec, "software_to_install", NoSoftware)
                r == SubmitRequest(posted, env, rec1)
            IN  /\ has_editable_rec' = TRUE
                /\ removed_fields' = k.removed
                /\ keep_shown' = DOMAIN k.kept
                /\ keep' = [f \in AllFields |->
                               IF f \in DOMAIN k.kept THEN k.kept[f] ELSE TRUE]
                /\ slider_shown' = s.shown
                /\ warned' = s.warned
                /\ IF s.raised
                   THEN /\ editable_rec' = s.rec
                        /\ render_raised' = TRUE
                        /\ submit_shown' = FALSE
                        /\ posted' = posted
                   ELSE /\ editable_rec' = rec1
                        /\ submit_shown' = TRUE
                        /\ IF sub_event = "submit"
                           THEN /\ posted' = r.sent
                                /\ render_raised' = r.raised
                           ELSE /\ posted' = posted
                                /\ render_raised' = FALSE
    /\ sub_pc' = "idle"
    /\ UNCHANGED <<env, mode, app_rec, sub_event, today>>
    /\ UNCHANGED <<variant, genai_result, slider_move, render_pc, shown_cost>>
    /\ UNCHANGED <<fetchVars, lookupVars, estVars, sessVars,
                   inputVars>>

SubmitIdle ==
    /\ env = "Development"
    /\ mode = "form"
    /\ app_rec = << >>
    /\ sub_event = "none"
    /\ sub_pc = "off"
    /\ submit_shown = FALSE
    /\ posted = << >>
    /\ today = Today

----------------------------------------------------------------------------
(* The input page: form, chatbot text, hand-over to the review page        *)
(* (show_input_page of src/Updated/app.py and src/InfraMarketPlace/app.py, *)
(*  show_input_form of src/InfraMarketPlace/app_main.py)                   *)

\* the two-page applications; the input page of InfraMarketPlace/app.py is
\* that of app_main.py
InputVariants == {Updated, AppMain}

\* user_data of a submitted form; of the text fields the model keeps
\* project_name and environment
FormData(v, e) ==
    IF v = Updated
    THEN [project_name |-> PyStr(<<"demo">>), compute |-> PyInt(1),
          memory |-> PyInt(1), storage |-> PyInt(0),
          environment |-> PyStr(<<e>>)]
    ELSE [project_name |-> PyStr(<<"demo">>), compute |-> PyInt(1),
          storage |-> PyInt(0), environment |-> PyStr(<<e>>)]

\* user_data of a chatbot text where the page does not extract
ChatData(e) ==
    [project_name |-> PyStr(<<"[From Chatbot]">>), compute |-> PyNone,
     storage |-> PyNone, environment |-> PyStr(<<e>>)]

\* what call_gemini_extract_fields hands back: the error dict of
\* extract_json, or the parsed object
Extractions ==
    {[error |-> PyStr(<<"No", "JSON", "found">>)],
     << >>,
     [compute |-> PyInt(8), storage |-> PyInt(100)]}

\* parsed_fields after environment and the memory default are written into
\* it (Updated/app.py:337-340)
Completed(parsed, e) ==
    LET p == Put(parsed, "environment", PyStr(<<e>>))
    IN  IF "memory" \in DOMAIN p THEN p ELSE Put(p, "memory", PyInt(0))

\* a plausible slip: the hand-over is not guarded by "if user_data"
HandOver_Unguarded(data) == TRUE

\* if user_data: (a dict is true when it is not empty)
HandOver(data) == data # << >>

\* the user picks the other input method; the script reruns
InputChangeMode ==
    /\ input_pc = "idle"
    /\ mode' \in InputModes \ {mode}
    /\ input_event' = "other"
    /\ input_pc' = "run"
    /\ UNCHANGED <<env, app_rec, sub_event, sub_pc, submit_shown, posted,
                   today>>
    /\ UNCHANGED <<page, user_fields, user_data, raw_blank, parsed_fields>>
    /\ UNCHANGED <<fetchVars, lookupVars, estVars, reviewVars, sessVars>>

\* the user clicks "Submit" of the form; the script reruns
InputSubmitForm ==
    /\ input_pc = "idle"
    /\ mode = "form"
    /\ input_event' = "form"
    /\ input_pc' = "run"
    /\ UNCHANGED <<page, user_fields, user_data, raw_blank, parsed_fields>>
    /\ UNCHANGED <<fetchVars, lookupVars, estVars, reviewVars, sessVars,
                   submitVars>>

\* the user clicks "Submit Chatbot" on the text in the box; the script
\* reruns
InputSubmitChat ==
    /\ input_pc = "idle"
    /\ mode = "chat"
    /\ raw_blank' \in BOOLEAN
    /\ input_event' = "chat"
    /\ input_pc' = "run"
    /\ UNCHANGED <<page, user_fields, user_data, parsed_fields>>
    /\ UNCHANGED <<fetchVars, lookupVars, estVars, reviewVars, sessVars,
                   submitVars>>

\* what one run of the page collects: [data, parsed, raised]
Collects(v, m, event, blank, e) ==
    IF m = "form"
    THEN {[data |-> IF event = "form" THEN FormData(v, e) ELSE << >>,
           parsed |-> << >>, raised |-> FALSE]}
    ELSE IF event # "chat" \/ blank
    THEN {[data |-> << >>, parsed |-> << >>, raised |-> FALSE]}
    ELSE IF v = Updated
    THEN {[data |-> IF "error" \in DOMAIN x THEN << >> ELSE Completed(x, e),
           parsed |-> IF "error" \in DOMAIN x THEN x ELSE Completed(x, e),
           raised |-> FALSE] : x \in Extractions}
         \cup {[data |-> << >>, parsed |-> << >>, raised |-> TRUE]}
    ELSE {[data |-> ChatData(e), parsed |-> << >>, raised |-> FALSE]}

\* one run of the script while page is "input": the page collects user_data
\* and, if there is any, stores it, switches the page and reruns into the
\* review page; a service call that raises ends the run
InputRun ==
    /\ input_pc = "run"
    /\ page = "input"
    /\ \E c \in Collects(variant, mode, input_event, raw_blank, env) :
          /\ user_data' = c.data
          /\ parsed_fields' = c.parsed
          /\ render_raised' = c.raised
          /\ IF ~c.raised /\ HandOver(c.data)
             THEN /\ user_fields' = c.data
                  /\ page' = "recommendation"
                  /\ genai_result' = IF variant = Updated THEN << >>
                                     ELSE genai_result
                  /\ input_pc' = "left"
                  /\ render_pc' = "gen"
             ELSE /\ input_pc' = "idle"
                  /\ UNCHANGED <<user_fields, page, genai_result, render_pc>>
    /\ UNCHANGED <<input_event, raw_blank>>
    /\ UNCHANGED <<variant, has_editable_rec, editable_rec, removed_fields,
                   keep, keep_shown, slider_shown, slider_move, warned,
                   shown_cost>>
    /\ UNCHANGED <<fetchVars, lookupVars, estVars, sessVars, submitVars>>

InputIdle ==
    /\ page = "input"
    /\ user_fields = << >>
    /\ user_data = << >>
    /\ input_event = "none"
    /\ input_pc = "off"
    /\ raw_blank = TRUE
    /\ parsed_fields = << >>

----------------------------------------------------------------------------
(* Specifications *)

\* ingestion of the catalog
InitFetch ==
    /\ service \in BOOLEAN
    /\ pages \in PageSeqs
    /\ failAt \in 0..Len(pages)
    /\ FetchStart
    /\ LookupIdle
    /\ EstimateIdle
    /\ ReviewIdle
    /\ SessionIdle
    /\ SubmitIdle
    /\ InputIdle

NextFetch ==
    \/ FetchReturnEmpty
    \/ FetchPageFails
    \/ FetchPage
    \/ CacheStore
    \/ SessionAssign
    \/ SessionRead

SpecFetch == InitFetch /\ [][NextFetch]_vars

\* one price lookup on a price map
InitLookup ==
    /\ lk_map \in InjSeqUpTo(EntryPool, MaxEntries)
    /\ lk_desc \in LookupDescs
    /\ lk_region \in LookupRegions
    /\ lk_usage \in LookupUsages
    /\ lk_pc = "call"
    /\ lk_result = NoResult
    /\ FetchIdle
    /\ EstimateIdle
    /\ ReviewIdle
    /\ SessionIdle
    /\ SubmitIdle
    /\ InputIdle

NextLookup == LookupCall

SpecLookup == InitLookup /\ [][NextLookup]_vars

\* one cost estimate
InitEstimate ==
    /\ est_config \in EstimateConfigs
    /\ est_region \in EstimateRegions
    /\ est_map \in EstimateCatalogs
    /\ est_pc = "call"
    /\ est_result = NoEstimate
    /\ FetchIdle
    /\ LookupIdle
    /\ ReviewIdle
    /\ SessionIdle
    /\ SubmitIdle
    /\ InputIdle

NextEstimate == EstimateCall \/ EstimateAgain

SpecEstimate == InitEstimate /\ [][NextEstimate]_vars

\* a session on the review page, from its first run on
InitReview ==
    /\ variant \in Variants
    /\ has_editable_rec = (variant \notin StandalonePages)
    /\ genai_result = << >>
    /\ editable_rec = << >>
    /\ removed_fields = << >>
    /\ keep = [f \in AllFields |-> TRUE]
    /\ keep_shown = {}
    /\ slider_shown = {}
    /\ slider_move = << >>
    /\ render_pc = "gen"
    /\ render_raised = FALSE
    /\ warned = {}
    /\ shown_cost = NoEstimate
    /\ cache_entry = NoCache
    /\ session_map = (IF variant = Updated THEN FullCatalog ELSE << >>)
    /\ reader_seen = NotRead
    /\ FetchIdle
    /\ LookupIdle
    /\ EstimateIdle
    /\ SubmitIdle
    /\ InputIdle

NextReview ==
    \/ Generate
    \/ InitEditable
    \/ KeepLoop
    \/ SliderLoop
    \/ RenderEstimate
    \/ OthersLoop
    \/ ToggleKeep
    \/ MoveSlider
    \/ Rerun

SpecReview == InitReview /\ [][NextReview]_vars

\* a session of the marketplace script, from its first run on
InitSubmit ==
    /\ variant \in SubmitApps
    /\ has_editable_rec = FALSE
    /\ genai_result = << >>
    /\ editable_rec = << >>
    /\ removed_fields = << >>
    /\ keep = [f \in AllFields |-> TRUE]
    /\ keep_shown = {}
    /\ slider_shown = {}
    /\ slider_move = << >>
    /\ render_pc = "off"
    /\ render_raised = FALSE
    /\ warned = {}
    /\ shown_cost = NoEstimate
    /\ env = "Development"
    /\ mode = "form"
    /\ app_rec = << >>
    /\ sub_event = "none"
    /\ sub_pc = "top"
    /\ submit_shown = FALSE
    /\ posted = << >>
    /\ today \in TodayValues
    /\ InputIdle
    /\ FetchIdle
    /\ LookupIdle
    /\ EstimateIdle
    /\ SessionIdle

NextSubmit ==
    \/ ChangeChoice
    \/ ClickGetRecommendation
    \/ ClickAnalyze
    \/ ClickKeepBox
    \/ ClickSubmit
    \/ ScriptTop
    \/ ReviewBlock

SpecSubmit == InitSubmit /\ [][NextSubmit]_vars

\* a session of a two-page application, from its first run on; on the
\* review page the user reruns it without editing
InitInput ==
    /\ variant \in InputVariants
    /\ has_editable_rec = TRUE
    /\ genai_result = << >>
    /\ editable_rec = << >>
    /\ removed_fields = << >>
    /\ keep = [f \in AllFields |-> TRUE]
    /\ keep_shown = {}
    /\ slider_shown = {}
    /\ slider_move = << >>
    /\ render_pc = "off"
    /\ render_raised = FALSE
    /\ warned = {}
    /\ shown_cost = NoEstimate
    /\ cache_entry = NoCache
    /\ session_map = (IF variant = Updated THEN FullCatalog ELSE << >>)
    /\ reader_seen = NotRead
    /\ page = "input"
    /\ user_fields = << >>
    /\ user_data = << >>
    /\ input_event = "none"
    /\ input_pc = "run"
    /\ raw_blank = TRUE
    /\ parsed_fields = << >>
    /\ FetchIdle
    /\ LookupIdle
    /\ EstimateIdle
    /\ SubmitIdle

NextInput ==
    \/ InputChangeMode
    \/ InputSubmitForm
    \/ InputSubmitChat
    \/ InputRun
    \/ Generate
    \/ KeepLoop
    \/ SliderLoop
    \/ RenderEstimate
    \/ OthersLoop
    \/ Rerun

SpecInput == InitInput /\ [][NextInput]_vars

----------------------------------------------------------------------------
(* Claims on fetch_pricing_skus, checked under SpecFetch *)

\* the records of all the pages served
Records == {pages[p][i] : <<p, i>> \in
               {<<q, j>> \in (1..Len(pages)) \X (1..MaxSkus + 1) :
                   j <= Len(pages[q])}}

\* the map that pages 1..n fold to when none of their records raises
RECURSIVE MapOfPages(_)
MapOfPages(n) ==
    IF n = 0 THEN << >> ELSE AddSkus(MapOfPages(n - 1), pages[n], 1).map

Keys(map) == {map[i].key : i \in 1..Len(map)}

\* C6: when the request of page k fails, the function returns (it ends in
\* "done" with a warning, nothing propagates) exactly the map folded from the
\* pages 1..k-1, and page k is the last page requested.
C6_PartialOnFetchFailure ==
    (fetch_pc = "done" /\ service /\ failAt > 0
        /\ \E i \in 1..Len(fetched) : fetched[i] = failAt)
    => /\ skus_price_map = MapOfPages(failAt - 1)
       /\ fetched = [i \in 1..failAt |-> i]
       /\ fetch_warned

C6_Witness ==
    /\ fetch_pc = "done"
    /\ failAt = 2
    /\ fetched = <<1, 2>>
    /\ fetch_warned
    /\ Len(skus_price_map) > 0

\* a record the claim calls well formed / malformed
HasUsablePrice(sku) ==
    /\ Len(sku.pricingInfo) > 0
    /\ \A i \in 1..Len(sku.pricingInfo) :
          /\ Len(sku.pricingInfo[i]) > 0
          /\ sku.pricingInfo[i][1].hasPrice
WellFormed(sku) == sku.category /\ HasUsablePrice(sku)

\* C7: a malformed record (no category, no price, no or empty tier list) adds
\* no entry and does not stop ingestion: when no page request failed, every
\* well-formed Compute Engine record served is indexed under its key, and
\* every key of the index is the key of a well-formed record.
C7_MalformedSkipped ==
    (fetch_pc = "done" /\ service /\ failAt = 0)
    => /\ \A sku \in Records :
            (WellFormed(sku) /\ StrIn(ComputeEngine, sku.service))
            => SkuKey(sku) \in Keys(skus_price_map)
       /\ \A k \in Keys(skus_price_map) :
            \E sku \in Records : WellFormed(sku) /\ SkuKey(sku) = k

\* C8: every entry of the index is the entry of a served record whose service
\* display name contains "Compute Engine", and its price is units + nanos/1e9
\* of tier 0 of one of that record's tiered-rate lists.
C8_ComputeOnlyFirstTier ==
    \A i \in 1..Len(skus_price_map) :
        \E sku \in Records :
            /\ sku.category
            /\ StrIn(ComputeEngine, sku.service)
            /\ SkuKey(sku) = skus_price_map[i].key
            /\ \E j \in 1..Len(sku.pricingInfo) :
                  /\ Len(sku.pricingInfo[j]) > 0
                  /\ skus_price_map[i].price =
                        sku.pricingInfo[j][1].units * PriceScale
                        + sku.pricingInfo[j][1].nanos \div NanosPerTick

C8_Witness ==
    /\ fetch_pc = "done"
    /\ SkuCloudStorage \in Records
    /\ SkuCoreUc \in Records
    /\ skus_price_map = <<Entry(cpu_desc, UsCentral1, OnDemand, 30)>>

----------------------------------------------------------------------------
(* Claims on get_price_for_resource, checked under SpecLookup *)

\* C3: a lookup returns an entry only if the fragment is a substring of its
\* description, its usage type is the requested one, and its region equals
\* the requested region or is "global".
C3_RegionEqualOrGlobal ==
    (lk_pc = "done" /\ lk_result.found)
    => LET e == lk_map[lk_result.at]
       IN  /\ StrIn(lk_desc, e.key[1])
           /\ e.key[3] = lk_usage
           /\ (e.key[2] = lk_region \/ e.key[2] = global)

\* the three tests of the lookup on the item at position i
C4_Hit(i) ==
    /\ StrIn(lk_desc, lk_map[i].key[1])
    /\ (StrIn(lk_region, lk_map[i].key[2]) \/ lk_map[i].key[2] = global)
    /\ lk_map[i].key[3] = lk_usage

\* C4: the lookup returns the price of the first item, in insertion order,
\* that passes its description, region and usage-type tests, and None when
\* no item passes; on [(core, us-central1, 0.03), (core, global, 0.05)] it
\* returns 0.03 for us-central1 and 0.05 for asia-east1.
C4_FirstMatchWins ==
    lk_pc = "done"
    => /\ lk_result.found <=> \E i \in 1..Len(lk_map) : C4_Hit(i)
       /\ lk_result.found =>
            /\ C4_Hit(lk_result.at)
            /\ \A j \in 1..(lk_result.at - 1) : ~C4_Hit(j)
            /\ lk_result.price = lk_map[lk_result.at].price
       /\ (/\ lk_map = <<Entry(cpu_desc, UsCentral1, OnDemand, 30),
                         Entry(cpu_desc, global, OnDemand, 50)>>
           /\ lk_desc = cpu_desc
           /\ lk_usage = OnDemand)
          => /\ lk_region = UsCentral1 => lk_result.price = 30
             /\ lk_region = AsiaEast1 => lk_result.price = 50

C4_Witness ==
    /\ lk_pc = "done"
    /\ lk_map = <<Entry(cpu_desc, UsCentral1, OnDemand, 30),
                  Entry(cpu_desc, global, OnDemand, 50)>>
    /\ lk_desc = cpu_desc
    /\ lk_usage = OnDemand
    /\ lk_region = UsCentral1
    /\ lk_result = [found |-> TRUE, at |-> 1, price |-> 30]

----------------------------------------------------------------------------
(* Claims on estimate_billing_cost_from_api, checked under SpecEstimate *)

\* the quantity a field of the call's configuration stands for
C1_Qty(k) ==
    IF k \notin DOMAIN est_config THEN 0
    ELSE LET v == est_config[k]
         IN  IF v.t \in {"int", "float"} \/ (v.t = "str" /\ v.s = <<"#">>)
             THEN v.n ELSE 0

\* the lookup of a dimension in the call's map and region
C1_Lookup(desc) == get_price_for_resource(desc, est_region, OnDemand, est_map)
C1_Price(desc) == IF C1_Lookup(desc).found THEN C1_Lookup(desc).price ELSE 0

\* the GPU model the call's configuration names, << >> for none
C1_Gpu ==
    IF "gpu" \in DOMAIN est_config /\ est_config["gpu"].t = "str"
       /\ est_config["gpu"].s \in {T4, A100, V100}
    THEN est_config["gpu"].s ELSE << >>
C1_GpuPrice == IF C1_Gpu = << >> THEN 0 ELSE C1_Price(C1_Gpu)

\* (cpuPrice*vcpus + memPrice*memoryGB + storagePrice*storageGB + gpuPrice)
\*   * durationDays * 24, in ticks
C1_Raw ==
    (C1_Price(cpu_desc) * C1_Qty("compute")
     + C1_Price(memory_desc) * C1_Qty("memory")
     + C1_Price(storage_desc) * C1_Qty("storage")
     + C1_GpuPrice) * est_result.days * 24

ExampleConfig ==
    [compute |-> PyInt(4), memory |-> PyInt(16), storage |-> PyInt(100),
     gpu |-> PyStr(<<"None">>), start_date |-> PyDateStr(2025, 8, 1),
     end_date |-> PyDateStr(2025, 8, 3)]
ExampleMap ==
    <<Entry(cpu_desc, UsCentral1, OnDemand, 30),
      Entry(memory_desc, UsCentral1, OnDemand, 10),
      Entry(SsdSkuDesc, UsCentral1, OnDemand, 1)>>

\* C1: the returned total is (cpuPrice*vcpus + memPrice*memoryGB +
\* storagePrice*storageGB + gpuPrice) * durationDays * 24 rounded to 2
\* decimal places, each price being the OnDemand lookup of its dimension;
\* the example configuration gives 18.24 and 2 days.
C1_TotalFormula ==
    est_pc = "done"
    => /\ 2 * (est_result.total * TicksPerCent - C1_Raw) <= TicksPerCent
       /\ 2 * (C1_Raw - est_result.total * TicksPerCent) <= TicksPerCent
       /\ (est_config = ExampleConfig /\ est_region = UsCentral1
           /\ est_map = ExampleMap)
          => est_result = [total |-> 1824, days |-> 2]

C1_Witness ==
    /\ est_pc = "done"
    /\ est_config = ExampleConfig
    /\ est_region = UsCentral1
    /\ est_map = ExampleMap
    /\ est_result = [total |-> 1824, days |-> 2]

\* what a dimension contributes per hour: nothing when its lookup finds no
\* entry
C2_Part(desc, qty) ==
    IF C1_Lookup(desc).found THEN C1_Lookup(desc).price * qty ELSE 0

\* C2: the estimate always returns; a dimension whose lookup finds no entry
\* adds 0 to the total, so the total is the rounded sum of the dimensions
\* that were found; with an empty catalog the result is (0.00, days), and
\* days >= 1.
C2_MissingPriceIsZero ==
    est_pc = "done"
    => /\ est_result.days >= 1
       /\ est_result.total =
            Round2((C2_Part(cpu_desc, C1_Qty("compute"))
                    + C2_Part(memory_desc, C1_Qty("memory"))
                    + C2_Part(storage_desc, C1_Qty("storage"))
                    + (IF C1_Gpu = << >> THEN 0 ELSE C2_Part(C1_Gpu, 1)))
                   * est_result.days * 24)
       /\ (\A d \in {cpu_desc, memory_desc, storage_desc, C1_Gpu} :
              ~C1_Lookup(d).found \/ d = << >>)
          => est_result.total = 0
       /\ est_map = << >> => est_result.total = 0

C2_Witness ==
    /\ est_pc = "done"
    /\ est_map = <<Entry(cpu_desc, UsCentral1, OnDemand, 30)>>
    /\ est_region = UsCentral1
    /\ est_config = ExampleConfig
    /\ ~C1_Lookup(memory_desc).found
    /\ est_result = [total |-> 576, days |-> 2]

\* a date field of the call's configuration parses as YYYY-MM-DD
C5_Parses(k) ==
    /\ k \in DOMAIN est_config
    /\ est_config[k].t \in {"str", "date"}
    /\ ~StrptimeRaises(StrOf(est_config[k]))

\* C5: days is max((end_date - start_date).days, 1) when both dates parse,
\* and 1 when a date is missing or malformed or the end is not after the
\* start; days >= 1 in every case.
C5_DurationDays ==
    est_pc = "done"
    => /\ est_result.days >= 1
       /\ (C5_Parses("start_date") /\ C5_Parses("end_date"))
          => LET delta == ToOrdinal(est_config["end_date"].ymd)
                          - ToOrdinal(est_config["start_date"].ymd)
             IN  /\ delta >= 1 => est_result.days = delta
                 /\ delta < 1 => est_result.days = 1
       /\ ~(C5_Parses("start_date") /\ C5_Parses("end_date"))
          => est_result.days = 1

C5_Witness ==
    /\ est_pc = "done"
    /\ "start_date" \in DOMAIN est_config
    /\ "end_date" \in DOMAIN est_config
    /\ est_config["start_date"] = PyDateStr(2024, 2, 28)
    /\ est_config["end_date"] = PyDateStr(2024, 3, 1)
    /\ est_result.days = 2

----------------------------------------------------------------------------
(* Claims on the keep boxes of the review page, checked under SpecReview *)

\* a step of the keep-box loop
C9_KeepLoopStep == render_pc = "keep" /\ render_pc' = "sliders"

\* the entry of field f is the same in both configurations
SameEntry(f, a, b) ==
    /\ f \in DOMAIN a <=> f \in DOMAIN b
    /\ f \in DOMAIN a => a[f] = b[f]

\* C9: when the keep box of a quantified field is unchecked and the field is
\* not removed, the keep-box loop puts it in the removal set and deletes it
\* from the configuration; when the box is unchecked and the field is already
\* removed, the loop leaves it removed and leaves its entry as it was, and a
\* run in which no box differs from the removal set changes neither the
\* removal set nor the configuration.
C9_RemoveIdempotent ==
    [][C9_KeepLoopStep =>
        /\ \A f \in AllFields :
             /\ (f \in keep_shown /\ ~keep[f] /\ ~InList(f, removed_fields))
                => /\ InList(f, removed_fields')
                   /\ f \notin DOMAIN editable_rec'
             /\ (~KeepValue(f, removed_fields) /\ InList(f, removed_fields))
                => /\ InList(f, removed_fields')
                   /\ SameEntry(f, editable_rec, editable_rec')
        /\ (\A f \in AllFields :
               KeepValue(f, removed_fields) = ~InList(f, removed_fields))
           => /\ removed_fields' = removed_fields
              /\ editable_rec' = editable_rec
      ]_vars

\* the field was removed by an earlier run and the box is still unchecked
\* when the loop runs again
C9_Witness ==
    /\ render_pc = "keep"
    /\ variant = AppMain
    /\ "compute" \in keep_shown
    /\ ~keep["compute"]
    /\ removed_fields = <<"compute">>
    /\ "compute" \notin DOMAIN editable_rec
    /\ "storage" \in DOMAIN editable_rec

\* C10: when the keep box of a quantified field is checked and the field is
\* in the removal set, the keep-box loop takes it out of the removal set and
\* the field is then present: with its default (compute 4, memory 16,
\* storage 100, budget 1000) when it was absent, with its value when it was
\* present; when the box is checked and the field is not in the removal set,
\* the loop changes neither its membership nor its entry.
C10_RestoreDefault ==
    [][C9_KeepLoopStep =>
        \A f \in AllFields :
             /\ (f \in keep_shown /\ keep[f] /\ InList(f, removed_fields))
                => /\ ~InList(f, removed_fields')
                   /\ f \in DOMAIN editable_rec'
                   /\ f \notin DOMAIN editable_rec
                      => editable_rec'[f] = PyInt(defaults(f))
                   /\ f \in DOMAIN editable_rec
                      => editable_rec'[f] = editable_rec[f]
             /\ (KeepValue(f, removed_fields) /\ ~InList(f, removed_fields))
                => /\ ~InList(f, removed_fields')
                   /\ SameEntry(f, editable_rec, editable_rec')
      ]_vars

\* the same, for the pages that carry the defaults table
C10_RestoreDefaultWhereCoded ==
    [][(C9_KeepLoopStep /\ variant # FrontendRec) =>
        \A f \in AllFields :
             (f \in keep_shown /\ keep[f] /\ InList(f, removed_fields))
             => /\ ~InList(f, removed_fields')
                /\ f \in DOMAIN editable_rec'
                /\ f \notin DOMAIN editable_rec
                   => editable_rec'[f] = PyInt(defaults(f))
                /\ f \in DOMAIN editable_rec
                   => editable_rec'[f] = editable_rec[f]
      ]_vars

----------------------------------------------------------------------------
(* Claims on the renders of the review page, checked under SpecReview *)

\* the keep-box loop takes f, removed and absent as a removal leaves it, out
\* of the removal set
C11_Restores(f) ==
    /\ C9_KeepLoopStep
    /\ InList(f, removed_fields)
    /\ f \notin DOMAIN editable_rec
    /\ ~InList(f, removed_fields')

\* the slider loop runs on f, present with its default, whose slider the last
\* run did not show (the state the keep-box loop leaves a restored field in)
C11_FreshSlider(f) ==
    /\ render_pc = "sliders"
    /\ render_pc' # "sliders"
    /\ variant # FrontendRec
    /\ f \notin slider_shown
    /\ ~InList(f, removed_fields)
    /\ f \in DOMAIN editable_rec
    /\ editable_rec[f] = PyInt(defaults(f))

C12_NoRemovedAndPresent ==
    render_pc = "idle"
    => \A f \in AllFields :
          ~(InList(f, removed_fields) /\ f \in DOMAIN editable_rec)

\* f is a field the slider loop of this run walks and whose stored value
\* int() rejects
C13_NotCoercible(f) ==
    /\ InList(f, SliderLoopFields(variant, editable_rec, removed_fields))
    /\ f \in DOMAIN editable_rec
    /\ IntRaises(editable_rec[f])

\* C13: when the slider loop of Updated/app.py or app_main.py meets a
\* quantified field whose stored value cannot be coerced to an integer, it
\* shows a warning for that field and leaves the stored value as it was.
C13_CoercionKeepsValue ==
    [][(render_pc = "sliders" /\ render_pc' # "sliders"
        /\ variant \in {Updated, AppMain} /\ ~render_raised')
       => \A f \in AllFields :
             C13_NotCoercible(f)
             => /\ f \in warned'
                /\ f \in DOMAIN editable_rec'
                /\ editable_rec'[f] = editable_rec[f]
      ]_vars

\* the stored value is no date and does not parse as YYYY-MM-DD
C14_Unparseable(val) == val.t # "date" /\ DateParseFails(val)

\* C14: in every variant the other-fields loop does not raise, and a
\* start_date or end_date whose stored value does not parse as YYYY-MM-DD
\* holds today's date after it.
C14_DateFallsBackToToday ==
    [][(render_pc = "others" /\ render_pc' = "idle")
       => /\ ~render_raised'
          /\ \A f \in {"start_date", "end_date"} :
                (f \in DOMAIN editable_rec /\ C14_Unparseable(editable_rec[f]))
                => /\ f \in DOMAIN editable_rec'
                   /\ editable_rec'[f].ymd = Today
      ]_vars

\* the same, for the pages that guard the parse
C14_DateFallsBackWhereGuarded ==
    [][(render_pc = "others" /\ render_pc' = "idle" /\ variant # FrontendRec)
       => /\ ~render_raised'
          /\ \A f \in {"start_date", "end_date"} :
                (f \in DOMAIN editable_rec /\ C14_Unparseable(editable_rec[f]))
                => /\ f \in DOMAIN editable_rec'
                   /\ editable_rec'[f].ymd = Today
      ]_vars

\* the value is of the class of field f
C15_OfClass(f, val) ==
    CASE f \in AllFields -> val.t = "int"
      [] f \in {"start_date", "end_date"} ->
            val.t = "str" /\ ~StrptimeRaises(val)
      [] OTHER -> val.t = "str"

\* C15: after every run of the review page that completed, every field
\* present in the configuration holds a value of its class: an integer for
\* compute, memory, storage and budget, a YYYY-MM-DD string for start_date
\* and end_date, a string for the other fields.
C15_TypesMatchClass ==
    (render_pc = "idle" /\ ~render_raised)
    => \A f \in DOMAIN editable_rec : C15_OfClass(f, editable_rec[f])

\* C16: in every variant, whenever a run of the review page has ended with a
\* quantified field removed (in the removal set, absent from the
\* configuration), the page shows the keep box of that field, unchecked, so
\* that checking it is an action the user can take to make the field present
\* again.
C16_RemovedCanBeRestored ==
    render_pc = "idle"
    => \A f \in AllFields :
          (InList(f, removed_fields) /\ f \notin DOMAIN editable_rec)
          => (f \in keep_shown /\ ~keep[f])

\* the same, for the pages whose keep-box loop walks every quantified field
C16_RemovedCanBeRestoredWhereWalked ==
    (render_pc = "idle" /\ variant # FrontendRec)
    => \A f \in AllFields :
          (InList(f, removed_fields) /\ f \notin DOMAIN editable_rec)
          => (f \in keep_shown /\ ~keep[f])

----------------------------------------------------------------------------
(* Claims on the purity of the estimate, checked under SpecEstimate *)

\* a call of estimate_billing_cost_from_api returns
C17_Returns == est_pc' # est_pc

C17_RenderEstimateFrame ==
    [][(render_pc = "estimate" /\ render_pc' # "estimate")
       => /\ editable_rec' = editable_rec
          /\ removed_fields' = removed_fields
          /\ session_map' = session_map
          /\ render_pc' = "others"
             => shown_cost' = estimate_billing_cost_from_api(
                                 editable_rec', RegionOf(editable_rec').s,
                                 session_map')
      ]_vars

\* a lookup leaves the price map unchanged (under SpecLookup)
C17_LookupFrame ==
    [][lk_pc' # lk_pc => lk_map' = lk_map]_vars

----------------------------------------------------------------------------
(* Claims on the catalog a session holds, checked under SpecFetch *)

\* the index is empty or the map the build returned
C18_ReturnedOrEmpty(map) ==
    map # << >> => (fetch_pc = "done" /\ map = skus_price_map)

\* C18: the catalog index a session holds, and every index a render of the
\* session has read, is empty or the map a build returned, never the map a
\* build is still filling; and an index the session holds is not changed
\* afterwards.
C18_NoPartialIndexSeen ==
    /\ [](/\ C18_ReturnedOrEmpty(session_map)
          /\ reader_seen.read => C18_ReturnedOrEmpty(reader_seen.map))
    /\ [][session_map # << >> => session_map' = session_map]_vars

\* a render read the index while the build had filled part of its map: it
\* saw the empty index
C18_Witness ==
    /\ fetch_pc = "loop"
    /\ skus_price_map # << >>
    /\ ~cache_entry.set
    /\ reader_seen.read
    /\ reader_seen.map = << >>

\* a session holds the map of a build that failed at its second page
C18_WitnessHeld ==
    /\ fetch_pc = "done"
    /\ failAt = 2
    /\ session_map # << >>
    /\ reader_seen = [read |-> TRUE, map |-> session_map]

----------------------------------------------------------------------------
\* C19: whatever the generative source returned (config absent, empty, or
\* holding non-numeric strings, None, lists or mappings), no run of the
\* review page ends in an unhandled exception.
C19_RenderNeverRaises == ~render_raised

\* the same on the page that skips a quantified field it cannot coerce and
\* guards its date parsing (InfraMarketPlace/app_main.py)
C19_RenderNeverRaisesWhereSkipped == (variant = AppMain) => ~render_raised

----------------------------------------------------------------------------
(* Claims on the submit button, checked under SpecSubmit *)

\* the run a click on the submit button triggered has ended
C20_SubmitRunEnded == sub_pc = "idle" /\ sub_event = "submit"

\* C20: once a recommendation has been produced, when the run that a click
\* on "Submit for Approval & Start Procurement" triggered has ended, the
\* current editable configuration has been posted to ServiceNow.
C20_SubmitClickPosts ==
    C20_SubmitRunEnded
        => /\ posted # << >>
           /\ posted[Len(posted)].data = editable_rec

\* the run a click on the submit button triggers builds no recommendation:
\* it renders neither the review block nor the button, and posts nothing
C20_SubmitRunSkipsReview ==
    (sub_event = "submit" /\ sub_pc \in {"review", "idle"})
        => /\ app_rec = << >>
           /\ (sub_pc = "idle" => ~submit_shown /\ keep_shown = {})
           /\ posted = << >>
           /\ ~render_raised

\* a recommendation was produced and reviewed, and the submit run has ended
C20_ReviewedThenSubmitted ==
    /\ C20_SubmitRunEnded
    /\ has_editable_rec
    /\ "compute" \in DOMAIN editable_rec

----------------------------------------------------------------------------
(* Claims on the GPU term of the estimate, checked under SpecEstimate *)

\* str(config.get("gpu")) where the configuration names a GPU, << >> where
\* gpu is "None", missing or empty
C21_GpuName ==
    IF "gpu" \in DOMAIN est_config /\ Truthy(est_config["gpu"])
       /\ StrOf(est_config["gpu"]).s # <<"None">>
    THEN StrOf(est_config["gpu"]).s ELSE << >>

\* the total with the GPU term gpu_term, in ticks
C21_Raw(gpu_term) ==
    (C1_Price(cpu_desc) * C1_Qty("compute")
     + C1_Price(memory_desc) * C1_Qty("memory")
     + C1_Price(storage_desc) * C1_Qty("storage")
     + gpu_term) * est_result.days * 24

C21_TotalWith(gpu_term) ==
    /\ 2 * (est_result.total * TicksPerCent - C21_Raw(gpu_term)) <= TicksPerCent
    /\ 2 * (C21_Raw(gpu_term) - est_result.total * TicksPerCent) <= TicksPerCent

\* C21: for every gpu value other than "None" the GPU term of the returned
\* total is the OnDemand lookup of that name in the given region; for gpu
\* "None", missing or empty it is 0.
C21_GpuTermIsLookup ==
    est_pc # "call"
    => C21_TotalWith(IF C21_GpuName = << >> THEN 0
                     ELSE C1_Price(C21_GpuName))

\* the same for the names gpu_desc_map lists, and 0 for every other value
C21_GpuTermIsLookupWhereListed ==
    est_pc # "call"
    => C21_TotalWith(IF C21_GpuName \in {T4, A100, V100}
                     THEN C1_Price(C21_GpuName) ELSE 0)

\* an estimate of a configuration that names the T4 on a map that prices it
C21_ListedGpuPriced ==
    /\ est_pc = "done"
    /\ C21_GpuName = T4
    /\ C1_Price(T4) = 350
    /\ est_result.total > 0

----------------------------------------------------------------------------
(* Claims on pagination, checked under SpecFetch *)

\* the page numbers 1..n in order
C22_UpTo(n) == [i \in 1..n |-> i]

\* some record of the pages has no category
C22_SomeRecordRaises ==
    \E p \in 1..Len(pages) : \E i \in 1..Len(pages[p]) : SkuRaises(pages[p][i])

\* C22: when no request fails, the fetch has requested the pages in order,
\* each once, each with the token of the one before, and it has stopped at
\* the page without a continuation token, which is the last one.
C22_EveryPageOnceInOrder ==
    /\ (service /\ failAt = 0) => \E n \in 0..Len(pages) : fetched = C22_UpTo(n)
    /\ (service /\ failAt = 0 /\ fetch_pc = "done")
           => fetched = C22_UpTo(Len(pages))

\* the same for pages whose records all carry a category
C22_EveryPageOnceInOrderWhereWellFormed ==
    ~C22_SomeRecordRaises => C22_EveryPageOnceInOrder

\* the function returns in every case
C22_Terminates == <>(fetch_pc = "done")

\* the loop is run to its end
FairFetch ==
    SpecFetch /\ WF_vars(FetchReturnEmpty \/ FetchPageFails \/ FetchPage)

\* a fetch of MaxPages pages of well-formed records has returned
C22_ThreePagesDone ==
    /\ fetch_pc = "done"
    /\ service
    /\ failAt = 0
    /\ Len(pages) = MaxPages
    /\ fetched = C22_UpTo(MaxPages)
    /\ ~C22_SomeRecordRaises

----------------------------------------------------------------------------
\* the step that ends the run a click on the submit button triggered
C23_SubmitRunEnds ==
    sub_event = "submit" /\ sub_pc = "review" /\ sub_pc' = "idle"

\* the table the request of environment e goes to
C23_TableOf(e) ==
    IF e = "Production" THEN "change_request"
    ELSE "your_custom_approval_table"

\* C23: the run of a submit for approval posts exactly one request: a change
\* request when the environment is Production and no approval request, an
\* approval request for every other environment and no change request.
C23_OneRequestOfTheEnvironment ==
    [][C23_SubmitRunEnds
       => /\ Len(posted') = Len(posted) + 1
          /\ posted'[Len(posted')].path = C23_TableOf(env)
      ]_vars

\* no run of the script posts a request
C23_NothingPosted == posted = << >>

\* a submit run has ended in the Production environment
C23_ProductionSubmitted ==
    /\ sub_event = "submit"
    /\ sub_pc = "idle"
    /\ env = "Production"
    /\ has_editable_rec

----------------------------------------------------------------------------
(* Claims on the hand-over from the input page, checked under SpecInput *)

\* the step is a run of the input page
C24_InputRuns == input_pc = "run" /\ input_pc' # "run"

\* the run collects user data: the form was submitted, or the chatbot text
\* is not blank and, where the page extracts, the extraction has no error key
C24_Collected ==
    \/ mode = "form" /\ input_event = "form"
    \/ /\ mode = "chat" /\ input_event = "chat" /\ ~raw_blank
       /\ ~render_raised'
       /\ variant = Updated => "error" \notin DOMAIN parsed_fields'

\* the run is one of a blank chatbot text or of a failed extraction
C24_NothingCollected ==
    /\ mode = "chat" /\ input_event = "chat"
    /\ \/ raw_blank
       \/ variant = Updated /\ "error" \in DOMAIN parsed_fields'

\* C24: page is always "input" or "recommendation"; it changes, from input
\* to recommendation, only in a run that collected non-empty user data, and
\* then user_fields is that data; a run on a blank chatbot text or a failed
\* extraction leaves page and user_fields as they are.
C24_PageHandOver ==
    /\ [](page \in {"input", "recommendation"})
    /\ [][/\ (page' # page \/ user_fields' # user_fields)
                => /\ page = "input" /\ page' = "recommendation"
                   /\ C24_InputRuns
                   /\ C24_Collected
                   /\ user_data' # << >>
                   /\ user_fields' = user_data'
          /\ (C24_InputRuns /\ C24_NothingCollected)
                => page' = page /\ user_fields' = user_fields
         ]_vars

\* a chatbot text was extracted and handed over to the review page, which
\* has rendered
C24_Witness ==
    /\ variant = Updated
    /\ input_event = "chat"
    /\ page = "recommendation"
    /\ user_fields = user_data
    /\ user_fields = Completed([compute |-> PyInt(8), storage |-> PyInt(100)],
                               "Development")
    /\ render_pc = "idle"

\* a run on a failed extraction has ended on the input page
C24_WitnessFailed ==
    /\ variant = Updated
    /\ input_pc = "idle"
    /\ "error" \in DOMAIN parsed_fields
    /\ page = "input"
    /\ user_fields = << >>

----------------------------------------------------------------------------
(* Claims on the call of the generative service, checked under SpecReview *)

\* the step is the head of a render of the review page of a two-page
\* application
C25_RenderStarts ==
    render_pc = "gen" /\ render_pc' = "keep" /\ variant \in {Updated, AppMain}

\* C25: a render calls the generative service, stores what it returns and
\* reassigns editable_rec from its config, exactly when the stored result
\* is empty at its start; a render that starts on a non-empty result leaves
\* the result and editable_rec as they are, and no step replaces a non-empty
\* result.
C25_GeneratesIffEmpty ==
    [][/\ C25_RenderStarts
            => IF genai_result = << >>
               THEN /\ genai_result' \in GenaiResults
                    /\ editable_rec' = ConfigOf(genai_result')
               ELSE /\ genai_result' = genai_result
                    /\ editable_rec' = editable_rec
       /\ genai_result # << >> => genai_result' = genai_result
      ]_vars

\* a render has started after the user removed compute from a stored
\* recommendation
C25_Witness ==
    /\ variant = Updated
    /\ render_pc = "keep"
    /\ "config" \in DOMAIN genai_result
    /\ "compute" \in DOMAIN genai_result["config"]
    /\ removed_fields = <<"compute">>
    /\ "compute" \notin DOMAIN editable_rec
    /\ "storage" \in DOMAIN editable_rec

----------------------------------------------------------------------------
(* Claims on the estimate of the review page, checked under SpecReview *)

\* rec without the fields of the list removed
RECURSIVE C26_Without(_, _)
C26_Without(rec, removed) ==
    IF removed = << >> THEN rec
    ELSE C26_Without(Pop(rec, Head(removed)), Tail(removed))

\* C26: the estimate a render of Updated/app.py shows is the formula with
\* the quantity of every removed field taken as 0: a removed field adds
\* neither its last value nor its default to the total.
C26_RemovedCountsZero ==
    (variant = Updated /\ render_pc = "others")
    => shown_cost = estimate_billing_cost_from_api(
                        C26_Without(editable_rec, removed_fields),
                        RegionOf(editable_rec).s, session_map)

\* the same for a render whose removed fields are no keys of editable_rec
C26_RemovedCountsZeroWhereAbsent ==
    (/\ variant = Updated /\ render_pc = "others"
     /\ \A i \in 1..Len(removed_fields) :
           removed_fields[i] \notin DOMAIN editable_rec)
    => shown_cost = estimate_billing_cost_from_api(
                        editable_rec, RegionOf(editable_rec).s, session_map)

\* an estimate was shown after compute was removed from a priced
\* configuration
C26_RemovedAndEstimated ==
    /\ variant = Updated
    /\ render_pc = "others"
    /\ removed_fields = <<"compute">>
    /\ "compute" \notin DOMAIN editable_rec
    /\ shown_cost.total > 0


----------------------------------------------------------------------------
(* Claims on the keys of the index, checked under SpecFetch *)

\* the writes skus_price_map[key] = price one record causes, in order
C27_RecordWrites(sku) ==
    IF StrIn(ComputeEngine, sku.service)
    THEN LET infos == SelectSeq(sku.pricingInfo, LAMBDA t : Len(t) > 0)
         IN  [i \in 1..Len(infos) |->
                 [key |-> SkuKey(sku), price |-> FirstTierPrice(infos[i])]]
    ELSE << >>

\* the writes of the records of one page, up to a record that raises
RECURSIVE C27_PageWrites(_, _)
C27_PageWrites(skus, i) ==
    IF i > Len(skus) \/ SkuRaises(skus[i]) THEN << >>
    ELSE C27_RecordWrites(skus[i]) \o C27_PageWrites(skus, i + 1)

\* the writes of the first n requests of the fetch
RECURSIVE C27_WritesOf(_)
C27_WritesOf(n) ==
    IF n = 0 THEN << >>
    ELSE C27_WritesOf(n - 1)
         \o (IF fetched[n] = failAt THEN << >>
             ELSE C27_PageWrites(pages[fetched[n]], 1))

C27_Writes == C27_WritesOf(Len(fetched))

C27_FirstWrite(k) ==
    CHOOSE i \in 1..Len(C27_Writes) :
        /\ C27_Writes[i].key = k
        /\ \A j \in 1..(i - 1) : C27_Writes[j].key # k

C27_LastWrite(k) ==
    CHOOSE i \in 1..Len(C27_Writes) :
        /\ C27_Writes[i].key = k
        /\ \A j \in (i + 1)..Len(C27_Writes) : C27_Writes[j].key # k

C27_WitnessTwoRecords ==
    /\ fetch_pc = "done"
    /\ Len(pages) = 2
    /\ pages[1] = <<SkuCoreUc>>
    /\ pages[2] = <<SkuTwoInfos>>
    /\ fetched = <<1, 2>>
    /\ skus_price_map = <<Entry(cpu_desc, UsCentral1, OnDemand, 1000)>>


----------------------------------------------------------------------------
(* The index of one page of records and a lookup on it: the map
   fetch_pricing_skus returns is the one get_price_for_resource walks *)

EuropeWest1 == <<"europe", "-west1">>

\* a record sold in two regions, europe-west12 first
SkuRamEurope == Sku(ComputeEngine, memory_desc, OnDemand,
                    <<EuropeWest1 \o <<"2">>, EuropeWest1>>,
                    << <<Rate(0, 11000000)>> >>)

IndexSkus == {SkuCoreUc, SkuCoreGlobal, SkuRamTwoRegions, SkuRamEurope,
              SkuNoRegion, SkuNoTiers}

\* get_price_for_resource(resource_desc, region, usage_type, skus_price_map)
\* on the map the fetch has returned
IndexLookup ==
    /\ fetch_pc = "done"
    /\ lk_pc = "call"
    /\ \E d \in {cpu_desc, memory_desc, storage_desc},
          r \in {UsCentral1, AsiaEast1, EuropeWest1},
          u \in LookupUsages :
          /\ lk_desc' = d
          /\ lk_region' = r
          /\ lk_usage' = u
          /\ lk_map' = skus_price_map
          /\ lk_result' = get_price_for_resource(d, r, u, skus_price_map)
    /\ lk_pc' = "done"
    /\ UNCHANGED <<fetchVars, estVars, reviewVars, sessVars, submitVars,
                   inputVars>>

InitIndex ==
    /\ service = TRUE
    /\ \E s \in SeqUpTo(IndexSkus, MaxSkus) : pages = <<s>>
    /\ failAt = 0
    /\ FetchStart
    /\ lk_map = << >>
    /\ lk_desc = EmptyStr
    /\ lk_region = EmptyStr
    /\ lk_usage = EmptyStr
    /\ lk_pc = "call"
    /\ lk_result = NoResult
    /\ EstimateIdle
    /\ ReviewIdle
    /\ SessionIdle
    /\ SubmitIdle
    /\ InputIdle

NextIndex == FetchPage \/ IndexLookup

SpecIndex == InitIndex /\ [][NextIndex]_vars

----------------------------------------------------------------------------
(* Claims on the region of an entry, checked under SpecIndex *)

\* the records of the page that are priced in the index
C28_Indexed ==
    {sku \in Records : /\ StrIn(ComputeEngine, sku.service)
                       /\ C27_RecordWrites(sku) # << >>}

\* region stands in the serviceRegions of the record, and not in front
C28_OnlyLater(sku, region) ==
    /\ \E i \in 2..Len(sku.regions) : sku.regions[i] = region
    /\ sku.regions[1] # region

\* the entry of the index a finished lookup has returned
C28_Returned == lk_map[lk_result.at]

\* the regions the keys of the index hold are the first regions of the
\* records, the empty region for a record without regions
C28_KeyedByFirstRegion ==
    fetch_pc = "done"
    => Keys(skus_price_map)
         = {<<sku.desc,
              IF sku.regions = << >> THEN EmptyStr ELSE Head(sku.regions),
              sku.usage>> : sku \in C28_Indexed}

\* C28: a record is indexed under the first of its regions only, and a lookup
\* for a region that stands only further back in the regions of a record
\* never returns the entry of that record.
C28_LaterRegionNeverFound ==
    /\ C28_KeyedByFirstRegion
    /\ (lk_pc = "done" /\ lk_result.found)
       => \A sku \in C28_Indexed :
             C28_OnlyLater(sku, lk_region)
             => C28_Returned.key # SkuKey(sku)

\* the same for the records whose first region neither contains the region
\* asked for nor is "global"
C28_LaterRegionNeverFoundWhereDisjoint ==
    /\ C28_KeyedByFirstRegion
    /\ (lk_pc = "done" /\ lk_result.found)
       => \A sku \in C28_Indexed :
             (/\ C28_OnlyLater(sku, lk_region)
              /\ ~StrIn(lk_region, sku.regions[1])
              /\ sku.regions[1] # global)
             => C28_Returned.key # SkuKey(sku)

\* a lookup for asia-east1 on the index of a record sold in us-central1 and
\* asia-east1 has found nothing
C28_LaterRegionMissed ==
    /\ lk_pc = "done"
    /\ pages = << <<SkuRamTwoRegions>> >>
    /\ lk_desc = memory_desc
    /\ lk_region = AsiaEast1
    /\ lk_usage = OnDemand
    /\ ~lk_result.found


----------------------------------------------------------------------------
(* Claims on the initialisation of the editable configuration *)

\* a run of Frontend/app.py or Test/dummy.py that has built a recommendation
\* reaches the review block
C29_ScriptHasRecommendation ==
    /\ sub_pc = "review"
    /\ sub_event \in {"get", "analyze"}
    /\ app_rec # << >>

\* a run of a recommendation_ui page is handed a recommendation
C29_PageHasRecommendation ==
    /\ render_pc = "gen"
    /\ variant \in StandalonePages

\* C29: the run that finds no editable configuration in the session leaves
\* one there, and the run that finds one leaves it and the removal set as they
\* are, whatever the recommendation of the run holds.
C29_LaterRecommendationIgnored ==
    [][(C29_ScriptHasRecommendation \/ C29_PageHasRecommendation)
        => /\ has_editable_rec'
           /\ has_editable_rec
                => /\ editable_rec' = editable_rec
                   /\ removed_fields' = removed_fields]_vars

\* the first run of a page copies the recommendation it is handed
C29_FirstRecommendationCopied ==
    [][(C29_PageHasRecommendation /\ ~has_editable_rec)
        => editable_rec' \in ReviewConfigs]_vars

\* a second form was submitted with another number of vCPUs, and the review
\* block still holds the first
C29_Witness ==
    /\ variant \in SubmitApps
    /\ sub_pc = "idle"
    /\ sub_event = "get"
    /\ has_editable_rec
    /\ "compute" \in DOMAIN app_rec
    /\ "compute" \in DOMAIN editable_rec
    /\ app_rec.compute # editable_rec.compute

\* a recommendation_ui page has run twice
C29_WitnessPage ==
    /\ variant \in StandalonePages
    /\ has_editable_rec
    /\ render_pc = "gen"


----------------------------------------------------------------------------
(* Claims on the dates of the mocked recommendation, checked under
   SpecSubmit *)

\* the run of a click on Analyze is at the input block
C30_AnalyzeRuns ==
    /\ sub_pc = "top"
    /\ mode = "chat"
    /\ sub_event = "analyze"

\* the str holds a calendar date that lies days after today
C30_DaysAfterToday(v, days) ==
    /\ v.t = "str"
    /\ v.s = <<"Y-M-D">>
    /\ v.ymd[2] \in 1..12
    /\ v.ymd[3] \in 1..DaysInMonth(v.ymd[1], v.ymd[2])
    /\ ToOrdinal(v.ymd) = ToOrdinal(today) + days

\* C30: the run of a click on Analyze does not raise, and the recommendation
\* it builds from a text that is not blank starts today and ends 7 days after
\* today.
C30_EndsSevenDaysAfterToday ==
    [][C30_AnalyzeRuns
        => /\ ~render_raised'
           /\ app_rec' # << >>
                => /\ C30_DaysAfterToday(app_rec'.start_date, 0)
                   /\ C30_DaysAfterToday(app_rec'.end_date, 7)]_vars

\* the same on the days of a month that have a day of the month 7 later
C30_EndsSevenDaysAfterTodayWhereInMonth ==
    [][(C30_AnalyzeRuns /\ ~ReplaceDayRaises)
        => /\ ~render_raised'
           /\ app_rec' # << >>
                => /\ C30_DaysAfterToday(app_rec'.start_date, 0)
                   /\ C30_DaysAfterToday(app_rec'.end_date, 7)]_vars

\* on the 24th of August the mocked recommendation ends on the 31st
C30_AnalyzedBeforeMonthEnd ==
    /\ today = <<2025, 8, 24>>
    /\ sub_event = "analyze"
    /\ app_rec # << >>
    /\ app_rec.end_date = PyDateStr(2025, 8, 31)

\* on the 25th of August the run of a click on Analyze has raised
C30_AnalyzeRaised ==
    /\ today = <<2025, 8, 25>>
    /\ sub_event = "analyze"
    /\ sub_pc = "idle"
    /\ render_raised
    /\ app_rec = << >>

====
